---- MODULE Spec2Model ----
(***************************************************************************)
(* A state-machine model of the AtomicGameEngine combat layer:             *)
(*   CoordinateSystem            (src/CoordinateSystem.py)   in-memory registry *)
(*   CoordinateSystemPersistence (src/CoordinateSystemPersistence.py) snapshot  *)
(*   CoordinateSystemDML         (src/CoordinateSystemDML.py) snapshot queries  *)
(*   CombatSystem                (src/CombatSystem.py)       combat table       *)
(*                                                                         *)
(* Numbers.  Health, attack_power and defense are floats in the code.  All *)
(* values of the model are integers and every defense value is even, so    *)
(* defense * 0.5 is the exact integer defense \div 2.  Positions have      *)
(* integer coordinates; distances are compared through their squares,      *)
(* which orders them exactly as math.sqrt does.                            *)
(*                                                                         *)
(* A Python dict / SQL table is a function whose DOMAIN is the set of keys *)
(* present; a lookup that returns None is a key outside the DOMAIN.        *)
(***************************************************************************)
EXTENDS Integers, Sequences, FiniteSets, TLC

VARIABLES
    cs,      \* CoordinateSystem._entity_positions : id -> position
    db,      \* durable table entities(id, x, y, z): id -> position
    combat,  \* durable table combat: id -> [health, attack_power, defense, status_effects]
    geom,    \* CoordinateSystem._static_geometry : id -> geometry record
    gdb,     \* durable table geometry(id, type, data, category): id -> row
    saved,   \* the registry contents handed to the most recent completed save
    last,    \* the call made by the last step and its outcome
    pre,     \* cs, db and combat as they were before that call
    steps,   \* number of calls made so far
    txn,     \* the transaction of a save_coordinate_system in progress
    astar,   \* the locals of a Pathfinding.a_star call in progress
    hexmap   \* HexMap.hex_terrain during generate_map

vars == <<cs, db, combat, geom, gdb, saved, last, pre, steps, txn, astar, hexmap>>

-----------------------------------------------------------------------------
(* Helpers *)

Max(a, b) == IF a >= b THEN a ELSE b

Put(f, k, v) == [x \in DOMAIN f \cup {k} |-> IF x = k THEN v ELSE f[x]]
Del(f, k) == [x \in DOMAIN f \ {k} |-> f[x]]
EmptyMap == [x \in {} |-> 0]

\* all orders in which the rows of a table with key set S can be scanned
RECURSIVE Perms(_)
Perms(S) ==
    IF S = {} THEN {<<>>}
    ELSE UNION {{<<x>> \o p : p \in Perms(S \ {x})} : x \in S}

SqDist(p, q) ==
    (p[1] - q[1]) * (p[1] - q[1]) + (p[2] - q[2]) * (p[2] - q[2])
      + (p[3] - q[3]) * (p[3] - q[3])

-----------------------------------------------------------------------------
(* Bounds and input sets *)

MaxSteps == 3   \* calls per run
MaxDur == 1     \* apply_status_effect durations are drawn from -1 .. MaxDur

\* placeholder for an argument a call does not have
NoneV == "None"

Entities == {"unit_1", "unit_2", "unit_3"}

\* a 3-4-5 triangle: |PA PB| = 3, |PA PC| = 4, |PB PC| = 5
PA == <<0, 0, 0>>
PB == <<3, 0, 0>>
PC == <<0, 4, 0>>

\* Config.HEX_SIZE (Config.py is not part of the sources)
HEX_SIZE == 2


ValidEffects == {"stunned", "poisoned", "buffed"}
EffectIn == {"stunned", "poisoned", "burning"}
DurationIn == (-1) .. MaxDur

FxIn == [n \in {"poisoned", "buffed"} |-> IF n = "poisoned" THEN 2 ELSE 1]

\* keyword arguments of update_combat_attributes: a function whose DOMAIN is
\* the set of arguments supplied (an argument left out is None in the code)
UcaArgs == {
    EmptyMap,
    [health |-> 3],
    [attack_power |-> 30],
    [defense |-> 50],
    [status_effects |-> FxIn],
    [health |-> 3, status_effects |-> FxIn] }

-----------------------------------------------------------------------------
(* CombatSystem defaults *)

DefaultHealth == 100
DefaultAttack == 20
DefaultDefense == 10
PoisonDamage == 5

DefaultRecord ==
    [health |-> DefaultHealth, attack_power |-> DefaultAttack,
     defense |-> DefaultDefense, status_effects |-> EmptyMap]

\* a slip: a field that is not supplied is reset to its default
WrittenRecord_resets(tbl, e, args) ==
    [k \in {"health", "attack_power", "defense", "status_effects"} |->
        IF k \in DOMAIN args THEN args[k] ELSE DefaultRecord[k]]

\* the row update_combat_attributes writes for e (lines 67-83)
WrittenRecord(tbl, e, args) ==
    LET base == IF e \in DOMAIN tbl THEN tbl[e] ELSE DefaultRecord
        Arg(k) == IF k \in DOMAIN args THEN args[k] ELSE base[k]
    IN  [health         |-> Arg("health"),
         attack_power   |-> Arg("attack_power"),
         defense        |-> Arg("defense"),
         status_effects |-> Arg("status_effects")]

\* a slip in the damage formula: the defense is not halved
Damage_full_defense(att, def) == Max(1, att.attack_power - def.defense)

\* damage = max(1.0, attack_power - defense * 0.5)
Damage(att, def) == Max(1, att.attack_power - (def.defense \div 2))

\* a slip: the last turn of a stun does not count
Stunned_off_by_one(att) ==
    "stunned" \in DOMAIN att.status_effects /\ att.status_effects["stunned"] > 1

\* attacker_attrs["status_effects"].get("stunned", 0) > 0
Stunned(att) ==
    "stunned" \in DOMAIN att.status_effects /\ att.status_effects["stunned"] > 0

-----------------------------------------------------------------------------
(* The step bookkeeping shared by all actions *)

NoOut == <<>>
NoArgs == EmptyMap

\* op: the method called; a, b: its entity (or effect name) arguments; x: its
\* other arguments by name; ret: "ok", "true", "false" or the exception raised; out:
\* the list returned
Call(op, a, b, x, ret, out) ==
    /\ steps' = steps + 1
    /\ pre' = [cs |-> cs, db |-> db, combat |-> combat, geom |-> geom, gdb |-> gdb, saved |-> saved]
    /\ last' = [op |-> op, a |-> a, b |-> b, x |-> x, ret |-> ret, out |-> out]

\* a call that raises exc: nothing was written before the raise
Raise(op, a, b, x, exc) ==
    /\ UNCHANGED <<cs, db, combat, geom, gdb, saved>>
    /\ Call(op, a, b, x, exc, NoOut)

-----------------------------------------------------------------------------
(* Static geometry: the records of the registry and the rows of the table *)

\* JSON null in the data column
Null == <<>>

\* the in-memory records of _static_geometry
Polygon(vertices, category) ==
    [type |-> "polygon", vertices |-> vertices, category |-> category]
Plane(origin, normal, category) ==
    [type |-> "plane", origin |-> origin, normal |-> normal, category |-> category]

\* the row save_coordinate_system inserts for one geometry record: the data
\* column is the JSON object {origin, normal, vertices} with null for the
\* fields the kind does not have
\* a slip: the normal of a plane is not written
GeometryRow_no_normal(gdata) ==
    [type |-> gdata.type,
     data |-> [origin   |-> IF gdata.type = "plane" THEN gdata.origin ELSE Null,
               normal   |-> Null,
               vertices |-> IF gdata.type = "polygon" THEN gdata.vertices ELSE Null],
     category |-> gdata.category]

GeometryRow(gdata) ==
    [type |-> gdata.type,
     data |-> [origin   |-> IF gdata.type = "plane" THEN gdata.origin ELSE Null,
               normal   |-> IF gdata.type = "plane" THEN gdata.normal ELSE Null,
               vertices |-> IF gdata.type = "polygon" THEN gdata.vertices ELSE Null],
     category |-> gdata.category]

GeometryRows(g) == [gid \in DOMAIN g |-> GeometryRow(g[gid])]

-----------------------------------------------------------------------------
(* CoordinateSystem and CoordinateSystemPersistence *)

\* a tuple of three numbers (the numbers of the model are all numbers)
ValidPosition(p) == Len(p) = 3

\* a slip: an id that is already placed keeps its first position
add_entity_first_wins(e, p) ==
    IF ~ValidPosition(p)
    THEN Raise("add_entity", e, e, [position |-> p], "TypeError")
    ELSE /\ cs' = IF e \in DOMAIN cs THEN cs ELSE Put(cs, e, p)
         /\ UNCHANGED <<db, combat, geom, gdb, saved>>
         /\ Call("add_entity", e, e, [position |-> p], "ok", NoOut)

add_entity(e, p) ==
    IF ~ValidPosition(p)
    THEN Raise("add_entity", e, e, [position |-> p], "TypeError")
    ELSE /\ cs' = Put(cs, e, p)
         /\ UNCHANGED <<db, combat, geom, gdb, saved>>
         /\ Call("add_entity", e, e, [position |-> p], "ok", NoOut)

\* a slip: removing an absent id is accepted silently
remove_entity_lenient(e) ==
    /\ cs' = Del(cs, e)
    /\ UNCHANGED <<db, combat, geom, gdb, saved>>
    /\ Call("remove_entity", e, e, NoArgs, "ok", NoOut)

remove_entity(e) ==
    IF e \notin DOMAIN cs
    THEN Raise("remove_entity", e, e, NoArgs, "KeyError")
    ELSE /\ cs' = Del(cs, e)
         /\ UNCHANGED <<db, combat, geom, gdb, saved>>
         /\ Call("remove_entity", e, e, NoArgs, "ok", NoOut)

update_entity_position(e, p) ==
    IF e \notin DOMAIN cs
    THEN Raise("update_entity_position", e, e, [position |-> p], "KeyError")
    ELSE IF ~ValidPosition(p)
    THEN Raise("update_entity_position", e, e, [position |-> p], "TypeError")
    ELSE /\ cs' = Put(cs, e, p)
         /\ UNCHANGED <<db, combat, geom, gdb, saved>>
         /\ Call("update_entity_position", e, e, [position |-> p], "ok", NoOut)

\* a slip: the duplicate check looks only at polygons
PolygonCheck_polygons_only(g, gid, vertices) ==
    IF gid \in DOMAIN g /\ g[gid].type = "polygon" THEN "ValueError"
    ELSE IF Len(vertices) < 3 THEN "ValueError"
    ELSE IF \E i \in 1 .. Len(vertices) : ~ValidPosition(vertices[i]) THEN "TypeError"
    ELSE "ok"

\* the three checks of add_static_polygon, in the order of the code
PolygonCheck(g, gid, vertices) ==
    IF gid \in DOMAIN g THEN "ValueError"
    ELSE IF Len(vertices) < 3 THEN "ValueError"
    ELSE IF \E i \in 1 .. Len(vertices) : ~ValidPosition(vertices[i]) THEN "TypeError"
    ELSE "ok"

add_static_polygon(gid, vertices, category) ==
    LET args == [vertices |-> vertices, category |-> category]
        chk == PolygonCheck(geom, gid, vertices)
    IN  IF chk # "ok"
        THEN Raise("add_static_polygon", gid, gid, args, chk)
        ELSE /\ geom' = Put(geom, gid, Polygon(vertices, category))
             /\ UNCHANGED <<cs, db, combat, gdb, saved>>
             /\ Call("add_static_polygon", gid, gid, args, "ok", NoOut)

\* add_static_plane: the duplicate and validation rules of add_static_polygon
PlaneCheck(g, gid, origin, normal) ==
    IF gid \in DOMAIN g THEN "ValueError"
    ELSE IF ~ValidPosition(origin) \/ ~ValidPosition(normal) THEN "TypeError"
    ELSE "ok"

add_static_plane(gid, origin, normal, category) ==
    LET args == [origin |-> origin, normal |-> normal, category |-> category]
        chk == PlaneCheck(geom, gid, origin, normal)
    IN  IF chk # "ok"
        THEN Raise("add_static_plane", gid, gid, args, chk)
        ELSE /\ geom' = Put(geom, gid, Plane(origin, normal, category))
             /\ UNCHANGED <<cs, db, combat, gdb, saved>>
             /\ Call("add_static_plane", gid, gid, args, "ok", NoOut)

\* a slip: removing an absent id is accepted silently
remove_static_geometry_lenient(gid) ==
    /\ geom' = Del(geom, gid)
    /\ UNCHANGED <<cs, db, combat, gdb, saved>>
    /\ Call("remove_static_geometry", gid, gid, NoArgs, "ok", NoOut)

remove_static_geometry(gid) ==
    IF gid \notin DOMAIN geom
    THEN Raise("remove_static_geometry", gid, gid, NoArgs, "KeyError")
    ELSE /\ geom' = Del(geom, gid)
         /\ UNCHANGED <<cs, db, combat, gdb, saved>>
         /\ Call("remove_static_geometry", gid, gid, NoArgs, "ok", NoOut)

\* no save in progress: the working tables of the connection are unused;
\* before and target name the registry of the last completed save
NoTransaction(reg) ==
    [pc |-> "idle", etab |-> EmptyMap, gtab |-> EmptyMap, before |-> reg, target |-> reg]

\* no a_star call in progress
NoSearch ==
    [pc |-> "idle", start |-> <<>>, goal |-> <<>>, open_set |-> <<>>,
     came_from |-> EmptyMap, g_score |-> EmptyMap, current |-> <<>>,
     neighbors |-> <<>>, i |-> 0, path |-> <<>>]

\* no map generated
NoHexMap ==
    [pc |-> "idle", first_pass |-> EmptyMap, hex_terrain |-> EmptyMap, cursor |-> 0,
     before |-> EmptyMap, call |-> <<>>, resources |-> EmptyMap]

save_coordinate_system ==
    /\ db' = cs
    /\ gdb' = GeometryRows(geom)
    /\ saved' = [cs |-> cs, geom |-> geom]
    /\ UNCHANGED <<cs, combat, geom>>
    /\ Call("save_coordinate_system", NoneV, NoneV, NoArgs, "ok", NoOut)

\* the entity loop of load_coordinate_system: add_entity(id, (x, y, z)) for
\* every row, into a new registry; a row always has its three coordinates
RECURSIVE LoadEntities(_, _, _)
LoadEntities(todo, tbl, reg) ==
    IF todo = {} THEN reg
    ELSE LET id == CHOOSE i \in todo : TRUE
         IN  LoadEntities(todo \ {id}, tbl, Put(reg, id, tbl[id]))

\* the geometry loop of load_coordinate_system: add_static_plane or
\* add_static_polygon on the parsed data column of every row, into a new
\* registry; err is the first exception raised.  The ids of a table are
\* distinct, so the outcome does not depend on the order of the rows.
RECURSIVE LoadGeometry(_, _, _)
LoadGeometry(todo, tbl, g) ==
    IF todo = {} THEN [err |-> "ok", geom |-> g]
    ELSE LET gid == CHOOSE i \in todo : TRUE
             row == tbl[gid]
         IN  IF row.type = "plane"
             THEN LET chk == PlaneCheck(g, gid, row.data.origin, row.data.normal)
                  IN  IF chk # "ok" THEN [err |-> chk, geom |-> g]
                      ELSE LoadGeometry(todo \ {gid}, tbl,
                               Put(g, gid, Plane(row.data.origin, row.data.normal,
                                                 row.category)))
             ELSE IF row.type = "polygon"
             THEN LET chk == PolygonCheck(g, gid, row.data.vertices)
                  IN  IF chk # "ok" THEN [err |-> chk, geom |-> g]
                      ELSE LoadGeometry(todo \ {gid}, tbl,
                               Put(g, gid, Polygon(row.data.vertices, row.category)))
             ELSE LoadGeometry(todo \ {gid}, tbl, g)

\* load_coordinate_system returns a new registry; the live one is not touched
load_coordinate_system ==
    LET ents == LoadEntities(DOMAIN db, db, EmptyMap)
        r == LoadGeometry(DOMAIN gdb, gdb, EmptyMap)
    IN  IF r.err # "ok"
        THEN Raise("load_coordinate_system", NoneV, NoneV, NoArgs, r.err)
        ELSE /\ UNCHANGED <<cs, db, combat, geom, gdb, saved>>
             /\ Call("load_coordinate_system", NoneV, NoneV, NoArgs, "ok",
                     [registry |-> [cs |-> ents, geom |-> r.geom]])

-----------------------------------------------------------------------------
(* CoordinateSystemDML.find_nearest_entity, without a type_prefix           *)
(* rows: the order in which SELECT id, x, y, z FROM entities yields the     *)
(* rows (no ORDER BY).  nearest is <<>> for None, <<id>> otherwise; max_d   *)
(* is max_distance.                                                         *)

RECURSIVE NearestScan(_, _, _, _, _, _)
NearestScan(rows, tbl, point, max_d, nearest, i) ==
    IF i > Len(rows) THEN nearest
    ELSE LET id == rows[i]
             d2 == SqDist(point, tbl[id])
             closer == nearest = <<>> \/ d2 < SqDist(point, tbl[nearest[1]])
             within == max_d >= 0 /\ d2 <= max_d * max_d
         IN  NearestScan(rows, tbl, point, max_d,
                         IF closer /\ within THEN <<id>> ELSE nearest, i + 1)

find_nearest_entity(rows, tbl, point, max_d) ==
    NearestScan(rows, tbl, point, max_d, <<>>, 1)

-----------------------------------------------------------------------------
(* CombatSystem *)

\* the combat table after update_combat_attributes(e, **args) on a registered e
UcaTable(tbl, e, args) == Put(tbl, e, WrittenRecord(tbl, e, args))

update_combat_attributes(e, args) ==
    IF e \notin DOMAIN cs
    THEN Raise("update_combat_attributes", e, e, args, "KeyError")
    ELSE /\ combat' = UcaTable(combat, e, args)
         /\ UNCHANGED <<cs, db, geom, gdb, saved>>
         /\ Call("update_combat_attributes", e, e, args, "ok", NoOut)

\* every result find_nearest_entity can return: one per order in which the
\* SELECT without ORDER BY can yield the rows
NearestResults(tbl, point, max_d) ==
    {find_nearest_entity(rows, tbl, point, max_d) : rows \in Perms(DOMAIN tbl)}

find_targets_in_range(a, attack_range) ==
    IF attack_range < 0 THEN Raise("find_targets_in_range", a, a, [attack_range |-> attack_range], "ValueError")
    ELSE IF a \notin DOMAIN cs THEN Raise("find_targets_in_range", a, a, [attack_range |-> attack_range], "KeyError")
    ELSE \E nearest \in NearestResults(db, cs[a], attack_range) :
           LET out == IF nearest # <<>> /\ nearest[1] # a
                      THEN << <<nearest[1], db[nearest[1]]>> >> ELSE <<>>
           IN  /\ UNCHANGED <<cs, db, combat, geom, gdb, saved>>
               /\ Call("find_targets_in_range", a, a, [attack_range |-> attack_range], "ok", out)

\* a slip: the defeated defender leaves the registry but the snapshot is
\* not written again
DefeatDefender_no_save(d, written) ==
    /\ cs' = Del(cs, d)
    /\ combat' = Del(written, d)
    /\ UNCHANGED <<db, geom, gdb, saved>>

\* the defeat branch of resolve_combat (lines 170-175): remove_entity,
\* DELETE FROM combat, save_coordinate_system
DefeatDefender(d, written) ==
    /\ cs' = Del(cs, d)
    /\ combat' = Del(written, d)
    /\ db' = cs'
    /\ gdb' = GeometryRows(geom)
    /\ saved' = [cs |-> cs', geom |-> geom]
    /\ UNCHANGED geom

\* the body of resolve_combat, run under the name op by resolve_combat itself
\* and by initiate_combat, which delegates to it
Resolve(op, a, d) ==
    IF a \notin DOMAIN combat \/ d \notin DOMAIN combat
    THEN Raise(op, a, d, NoArgs, "ValueError")
    ELSE IF Stunned(combat[a]) THEN Raise(op, a, d, NoArgs, "false")
    ELSE LET new_health == Max(0, combat[d].health - Damage(combat[a], combat[d]))
             written == UcaTable(combat, d, [health |-> new_health])
         IN  IF d \notin DOMAIN cs
             THEN Raise(op, a, d, NoArgs, "KeyError")   \* update_combat_attributes raises
             ELSE IF new_health <= 0
             THEN /\ DefeatDefender(d, written)
                  /\ Call(op, a, d, NoArgs, "true", NoOut)
             ELSE /\ combat' = written
                  /\ UNCHANGED <<cs, db, geom, gdb, saved>>
                  /\ Call(op, a, d, NoArgs, "false", NoOut)

resolve_combat(a, d) == Resolve("resolve_combat", a, d)

\* a slip: the engagement range is two hex sizes
OutOfRange_two_hex(p, q) == SqDist(p, q) > 4 * HEX_SIZE * HEX_SIZE

\* distance > Config.HEX_SIZE * 1.5, on squares: 4 * distance^2 > 9 * HEX_SIZE^2
OutOfRange(p, q) == 4 * SqDist(p, q) > 9 * HEX_SIZE * HEX_SIZE

initiate_combat(a, t) ==
    IF a \notin DOMAIN cs \/ t \notin DOMAIN cs
    THEN Raise("initiate_combat", a, t, NoArgs, "KeyError")
    ELSE IF OutOfRange(cs[a], cs[t])
    THEN Raise("initiate_combat", a, t, NoArgs, "ValueError")
    ELSE Resolve("initiate_combat", a, t)

\* a slip: a second application adds to the remaining duration
SetEffect_stacking(status_effects, effect, duration) ==
    Put(status_effects, effect,
        IF effect \in DOMAIN status_effects THEN status_effects[effect] + duration
        ELSE duration)

\* status_effects[effect] = duration
SetEffect(status_effects, effect, duration) == Put(status_effects, effect, duration)

apply_status_effect(e, effect, duration) ==
    IF effect \notin ValidEffects
    THEN Raise("apply_status_effect", e, effect, [duration |-> duration], "ValueError")
    ELSE IF duration < 0
    THEN Raise("apply_status_effect", e, effect, [duration |-> duration], "ValueError")
    ELSE IF e \notin DOMAIN cs
    THEN Raise("apply_status_effect", e, effect, [duration |-> duration], "KeyError")
    ELSE LET status_effects ==
                 IF e \in DOMAIN combat THEN combat[e].status_effects ELSE EmptyMap
         IN  /\ combat' = UcaTable(combat, e,
                             [status_effects |-> SetEffect(status_effects, effect, duration)])
             /\ UNCHANGED <<cs, db, geom, gdb, saved>>
             /\ Call("apply_status_effect", e, effect, [duration |-> duration], "ok", NoOut)

\* a slip: an effect whose duration reaches 0 is kept
KeepEffect_zero(new_effects, effect, new_duration) ==
    IF new_duration >= 0 THEN Put(new_effects, effect, new_duration) ELSE new_effects

\* if new_duration > 0: new_effects[effect] = new_duration
KeepEffect(new_effects, effect, new_duration) ==
    IF new_duration > 0 THEN Put(new_effects, effect, new_duration) ELSE new_effects

\* the loop of update_status_effects over the effects still to visit; lethal
\* is the early return taken when poison brings the health to 0.  The result
\* does not depend on the order of the visits: the map has one 'poisoned' key.
RECURSIVE TickLoop(_, _, _, _)
TickLoop(todo, fx, health, new_effects) ==
    IF todo = {} THEN [lethal |-> FALSE, health |-> health, new_effects |-> new_effects]
    ELSE LET effect == CHOOSE n \in todo : TRUE
             new_duration == fx[effect] - 1
             kept == KeepEffect(new_effects, effect, new_duration)
         IN  IF effect = "poisoned" /\ health > 0
             THEN LET new_health == Max(0, health - PoisonDamage) IN
                  IF new_health <= 0
                  THEN [lethal |-> TRUE, health |-> new_health, new_effects |-> kept]
                  ELSE TickLoop(todo \ {effect}, fx, new_health, kept)
             ELSE TickLoop(todo \ {effect}, fx, health, kept)

\* a slip: the poisoned entity leaves the registry but keeps its combat record
RemovePoisoned_keeps_record(e) ==
    /\ cs' = Del(cs, e)
    /\ UNCHANGED <<combat, geom>>
    /\ db' = cs'
    /\ gdb' = GeometryRows(geom)
    /\ saved' = [cs |-> cs', geom |-> geom]

\* the lethal branch of update_status_effects (lines 256-261)
RemovePoisoned(e) ==
    /\ cs' = Del(cs, e)
    /\ combat' = Del(combat, e)
    /\ db' = cs'
    /\ gdb' = GeometryRows(geom)
    /\ saved' = [cs |-> cs', geom |-> geom]
    /\ UNCHANGED geom

update_status_effects(e) ==
    IF e \notin DOMAIN combat
    THEN Raise("update_status_effects", e, e, NoArgs, "ok")      \* if not attrs: return
    ELSE LET attrs == combat[e]
             r == TickLoop(DOMAIN attrs.status_effects, attrs.status_effects,
                           attrs.health, EmptyMap)
         IN  IF e \notin DOMAIN cs
             THEN Raise("update_status_effects", e, e, NoArgs, "KeyError")
             ELSE IF r.lethal
             THEN /\ RemovePoisoned(e)
                  /\ Call("update_status_effects", e, e, NoArgs, "ok", NoOut)
             ELSE /\ combat' = UcaTable(combat, e,
                                  [health |-> r.health, status_effects |-> r.new_effects])
                  /\ UNCHANGED <<cs, db, geom, gdb, saved>>
                  /\ Call("update_status_effects", e, e, NoArgs, "ok", NoOut)

-----------------------------------------------------------------------------
(* The state after TestCombatSystem.setUp, with a third entity that has no  *)
(* combat record yet: three entities registered and saved, default records  *)
(* written for unit_1 and unit_2.                                           *)

Init ==
    /\ cs = [e \in Entities |-> CASE e = "unit_1" -> PA [] e = "unit_2" -> PB [] OTHER -> PC]
    /\ db = cs
    /\ combat = [e \in {"unit_1", "unit_2"} |-> DefaultRecord]
    /\ geom = EmptyMap
    /\ gdb = EmptyMap
    /\ saved = [cs |-> cs, geom |-> geom]
    /\ last = [op |-> "init", a |-> NoneV, b |-> NoneV, x |-> NoArgs, ret |-> "ok",
               out |-> NoOut]
    /\ pre = [cs |-> cs, db |-> db, combat |-> combat, geom |-> geom, gdb |-> gdb, saved |-> saved]
    /\ steps = 0
    /\ txn = NoTransaction(saved)
    /\ astar = NoSearch
    /\ hexmap = NoHexMap

\* the bound on the length of a run
CanStep == steps < MaxSteps

\* a call that runs from start to end with no save in progress beside it
Atomic == CanStep /\ UNCHANGED <<txn, astar, hexmap>>

Next ==
    \/ Atomic /\ \E e \in Entities, p \in {PA, PB, PC} : add_entity(e, p)
    \/ Atomic /\ \E e \in Entities : remove_entity(e)
    \/ Atomic /\ save_coordinate_system
    \/ Atomic /\ \E e \in Entities, args \in UcaArgs : update_combat_attributes(e, args)
    \/ Atomic /\ \E a \in Entities, r \in {-1, 1, 4} : find_targets_in_range(a, r)
    \/ Atomic /\ \E a \in Entities, d \in Entities : resolve_combat(a, d)
    \/ Atomic /\ \E a \in Entities, t \in Entities : initiate_combat(a, t)
    \/ Atomic /\ \E e \in Entities, n \in EffectIn, d \in DurationIn :
                    apply_status_effect(e, n, d)
    \/ Atomic /\ \E e \in Entities : update_status_effects(e)

Spec == Init /\ [][Next]_vars

-----------------------------------------------------------------------------
(* Vocabulary of the properties: the last call, its arguments, and the      *)
(* state before it.                                                         *)

Did(op) == last.op = op
Returned(v) == last.ret = v
Unchanged ==
    /\ cs = pre.cs /\ db = pre.db /\ combat = pre.combat
    /\ geom = pre.geom /\ gdb = pre.gdb /\ saved = pre.saved
HasRecord(tbl, e) == e \in DOMAIN tbl
HasStun(tbl, e) ==
    /\ e \in DOMAIN tbl
    /\ "stunned" \in DOMAIN tbl[e].status_effects
    /\ tbl[e].status_effects["stunned"] > 0

\* max(0, health - max(1, attack_power - 0.5 * defense)) for attacker a and
\* defender d of table tbl
HealthAfterHit(tbl, a, d) ==
    LET raw == tbl[a].attack_power - (tbl[d].defense \div 2)
        dmg == IF raw < 1 THEN 1 ELSE raw
        h == tbl[d].health - dmg
    IN  IF h < 0 THEN 0 ELSE h

\* resolve_combat(a, d) was called with both records present and a not stunned
ResolveCase ==
    /\ Did("resolve_combat")
    /\ HasRecord(pre.combat, last.a) /\ HasRecord(pre.combat, last.b)
    /\ ~HasStun(pre.combat, last.a)

\* in every record of the table but d's nothing changed, and no record appeared
OthersKept(d) ==
    /\ DOMAIN combat \subseteq DOMAIN pre.combat
    /\ \A e \in DOMAIN pre.combat \ {d} : e \in DOMAIN combat /\ combat[e] = pre.combat[e]

-----------------------------------------------------------------------------
(* C1, as stated: for a non-stunned attacker and a defender that both have  *)
(* combat records, resolve_combat sets the defender's health to             *)
(* max(0, health - max(1, attack_power - 0.5 * defense)), returns true      *)
(* exactly when that health is <= 0, and changes nothing else in either     *)
(* record.  (A defeated defender's record is deleted, so the health is      *)
(* compared only while the record exists; attacker and defender are taken  *)
(* to be two entities.)                                                     *)
C1_AsStated ==
    (ResolveCase /\ last.a # last.b) =>
        LET d == last.b
            nh == HealthAfterHit(pre.combat, last.a, d)
        IN  /\ Returned(IF nh <= 0 THEN "true" ELSE "false")
            /\ nh > 0 => /\ d \in DOMAIN combat
                         /\ combat[d] = [pre.combat[d] EXCEPT !.health = nh]
            /\ OthersKept(d)

(* C1, amended: the same, for a defender that is also present in the        *)
(* spatial registry: the call returns true exactly when the new health is   *)
(* <= 0, a surviving defender's record differs from before in its health    *)
(* only, which is the new health, a defeated defender's record is deleted,  *)
(* and every other record is as before.  For a defender that is absent from *)
(* the registry the call raises KeyError and changes nothing.               *)
C1_ResolveDamage ==
    ResolveCase =>
        LET d == last.b
            nh == HealthAfterHit(pre.combat, last.a, d)
        IN  IF d \in DOMAIN pre.cs
            THEN /\ Returned(IF nh <= 0 THEN "true" ELSE "false")
                 /\ nh > 0 => /\ d \in DOMAIN combat
                              /\ combat[d] = [pre.combat[d] EXCEPT !.health = nh]
                 /\ nh <= 0 => d \notin DOMAIN combat
                 /\ OthersKept(d)
            ELSE Returned("KeyError") /\ Unchanged

\* the spec's example: attack 20 against defense 10 and health 100 leaves 85
C1_Witness ==
    /\ ResolveCase /\ last.a # last.b /\ last.b \in DOMAIN pre.cs
    /\ Returned("false")
    /\ pre.combat[last.b].health = 100 /\ combat[last.b].health = 85
    /\ combat[last.a] = pre.combat[last.a]

-----------------------------------------------------------------------------
-----------------------------------------------------------------------------
(* C3, as stated: if the attacker's status_effects contain 'stunned' with   *)
(* remaining duration > 0, resolve_combat returns false and leaves the      *)
(* registry, the snapshot and every combat record unchanged.                *)
C3_AsStated ==
    (Did("resolve_combat") /\ HasStun(pre.combat, last.a)) =>
        Returned("false") /\ Unchanged

(* C3, amended: if the defender has a combat record and the attacker's      *)
(* status_effects contain 'stunned' with remaining duration > 0,            *)
(* resolve_combat returns false and leaves the registry, the snapshot and   *)
(* every combat record unchanged; if the defender has no combat record the  *)
(* call fails instead, and also changes nothing.                            *)
C3_StunnedNoOp ==
    (Did("resolve_combat") /\ HasStun(pre.combat, last.a)) =>
        /\ Unchanged
        /\ IF HasRecord(pre.combat, last.b) THEN Returned("false")
           ELSE Returned("ValueError")

\* a stunned attacker whose attack would otherwise have hurt the defender
C3_Witness ==
    /\ Did("resolve_combat") /\ HasStun(pre.combat, last.a)
    /\ last.a # last.b /\ HasRecord(pre.combat, last.b) /\ last.b \in DOMAIN pre.cs
    /\ Returned("false")
    /\ combat[last.b].health = pre.combat[last.b].health

-----------------------------------------------------------------------------
-----------------------------------------------------------------------------
(* C5: if an entity with a 'poisoned' effect and 0 < health <= 5 receives   *)
(* one update_status_effects tick (the call returns), then afterwards the   *)
(* entity is absent from the spatial registry, its combat record is         *)
(* deleted, the snapshot no longer lists it, and no combat record is        *)
(* rewritten: the combat table is the old one without the entity's row.     *)
PoisonedLow(tbl, e) ==
    /\ e \in DOMAIN tbl
    /\ "poisoned" \in DOMAIN tbl[e].status_effects
    /\ tbl[e].health > 0 /\ tbl[e].health <= 5

-----------------------------------------------------------------------------
(* C6: apply_status_effect(entity, name, duration) succeeds only when name  *)
(* is one of stunned/poisoned/buffed, duration >= 0 and the entity is in    *)
(* the registry (and then it does succeed); on success the stored duration  *)
(* for that name equals duration, overwriting any earlier value, and every  *)
(* other effect, health, attack_power and defense are unchanged (those of   *)
(* the default record when the entity had none); on any failure the combat  *)
(* table is unchanged.                                                      *)
C6_ApplyEffect ==
    Did("apply_status_effect") =>
        LET e == last.a
            name == last.b
            duration == last.x.duration
            valid == /\ name \in {"stunned", "poisoned", "buffed"}
                     /\ duration >= 0
                     /\ e \in DOMAIN pre.cs
            base == IF e \in DOMAIN pre.combat THEN pre.combat[e]
                    ELSE [health |-> 100, attack_power |-> 20, defense |-> 10,
                          status_effects |-> EmptyMap]
        IN  /\ Returned("ok") <=> valid
            /\ ~Returned("ok") => combat = pre.combat
            /\ Returned("ok") =>
                  /\ DOMAIN combat = DOMAIN pre.combat \cup {e}
                  /\ \A o \in DOMAIN pre.combat \ {e} : combat[o] = pre.combat[o]
                  /\ combat[e].health = base.health
                  /\ combat[e].attack_power = base.attack_power
                  /\ combat[e].defense = base.defense
                  /\ DOMAIN combat[e].status_effects = DOMAIN base.status_effects \cup {name}
                  /\ combat[e].status_effects[name] = duration
                  /\ \A o \in DOMAIN base.status_effects \ {name} :
                        combat[e].status_effects[o] = base.status_effects[o]

\* a second application overwrites a different earlier duration
C6_Witness ==
    /\ Did("apply_status_effect") /\ Returned("ok")
    /\ HasRecord(pre.combat, last.a)
    /\ last.b \in DOMAIN pre.combat[last.a].status_effects
    /\ pre.combat[last.a].status_effects[last.b] > 0
    /\ pre.combat[last.a].status_effects[last.b] # last.x.duration
    /\ last.x.duration > 0
    /\ combat[last.a].status_effects[last.b] = last.x.duration

-----------------------------------------------------------------------------
(* C7, as stated: with the snapshot in sync with the registry,              *)
(* find_targets_in_range(attacker, range) never returns the attacker,       *)
(* returns at most one element, and whenever at least one other entity lies *)
(* within range of the attacker it returns exactly the nearest such other   *)
(* entity (it is empty only when no other entity is within range).          *)
WithinRange(p, q, r) == r >= 0 /\ SqDist(p, q) <= r * r

OthersInRange(reg, a, r) ==
    {o \in DOMAIN reg \ {a} : WithinRange(reg[a], reg[o], r)}

C7_AsStated ==
    (Did("find_targets_in_range") /\ Returned("ok") /\ pre.db = pre.cs) =>
        LET a == last.a
            others == OthersInRange(pre.cs, a, last.x.attack_range)
        IN  /\ Len(last.out) <= 1
            /\ \A i \in 1 .. Len(last.out) : last.out[i][1] # a
            /\ others # {} =>
                  /\ Len(last.out) = 1
                  /\ last.out[1][1] \in others
                  /\ \A o \in others :
                        SqDist(pre.cs[a], pre.cs[last.out[1][1]]) <= SqDist(pre.cs[a], pre.cs[o])
            /\ others = {} => last.out = <<>>

-----------------------------------------------------------------------------
(* C8: update_combat_attributes(entity, ...) fails with NotFound (KeyError) *)
(* and leaves the combat table unchanged when the entity is absent from the *)
(* spatial registry; for a registered entity the first write creates its    *)
(* record with the defaults health=100, attack_power=20, defense=10,        *)
(* status_effects={} for every field not supplied, and every later write    *)
(* changes exactly the supplied fields and keeps the others.                *)
C8_UpdateAttributes ==
    Did("update_combat_attributes") =>
        LET e == last.a
            args == last.x
            old(k) == IF e \in DOMAIN pre.combat THEN pre.combat[e][k]
                      ELSE CASE k = "health" -> 100
                             [] k = "attack_power" -> 20
                             [] k = "defense" -> 10
                             [] OTHER -> EmptyMap
        IN  IF e \notin DOMAIN pre.cs
            THEN Returned("KeyError") /\ Unchanged
            ELSE /\ Returned("ok")
                 /\ cs = pre.cs /\ db = pre.db
                 /\ DOMAIN combat = DOMAIN pre.combat \cup {e}
                 /\ \A o \in DOMAIN pre.combat \ {e} : combat[o] = pre.combat[o]
                 /\ \A k \in {"health", "attack_power", "defense", "status_effects"} :
                       combat[e][k] = IF k \in DOMAIN args THEN args[k] ELSE old(k)

\* a later write that supplies one field of a record that no longer holds
\* the defaults in another
C8_Witness ==
    /\ Did("update_combat_attributes") /\ Returned("ok")
    /\ HasRecord(pre.combat, last.a)
    /\ DOMAIN last.x = {"health"}
    /\ pre.combat[last.a].attack_power # 20
    /\ combat[last.a].attack_power = pre.combat[last.a].attack_power
    /\ combat[last.a].health = 3 /\ pre.combat[last.a].health # 3

-----------------------------------------------------------------------------
(* C9, as stated: resolve_combat(attacker, defender) called when the        *)
(* attacker or the defender has no combat record fails with the NotFound    *)
(* kind (KeyError) and leaves the registry, the snapshot and all combat     *)
(* records unchanged.                                                       *)
C9_AsStated ==
    (/\ Did("resolve_combat")
     /\ (~HasRecord(pre.combat, last.a) \/ ~HasRecord(pre.combat, last.b))) =>
        Returned("KeyError") /\ Unchanged

-----------------------------------------------------------------------------
(* C10: initiate_combat(attacker, target) fails without changing any        *)
(* health, combat record or registry entry when either entity has no        *)
(* position in the registry or when their Euclidean distance, taken from    *)
(* the registry positions, exceeds 1.5 times the hex size; damage is        *)
(* applied only when the distance is at most that range.                    *)
TooFar(reg, a, t) == 4 * SqDist(reg[a], reg[t]) > 9 * HEX_SIZE * HEX_SIZE

C10_InitiateRange ==
    Did("initiate_combat") =>
        LET a == last.a
            t == last.b
            placed == a \in DOMAIN pre.cs /\ t \in DOMAIN pre.cs
        IN  /\ ~placed => Returned("KeyError") /\ Unchanged
            /\ (placed /\ TooFar(pre.cs, a, t)) => Returned("ValueError") /\ Unchanged
            /\ combat # pre.combat => placed /\ ~TooFar(pre.cs, a, t)

\* out of range in the registry although the stale snapshot still has the
\* two entities within range, with an attack that would otherwise have hit
C10_Witness ==
    /\ Did("initiate_combat") /\ Returned("ValueError") /\ last.a # last.b
    /\ last.a \in DOMAIN pre.cs /\ last.b \in DOMAIN pre.cs
    /\ TooFar(pre.cs, last.a, last.b)
    /\ last.a \in DOMAIN pre.db /\ last.b \in DOMAIN pre.db
    /\ ~TooFar(pre.db, last.a, last.b)
    /\ HasRecord(pre.combat, last.a) /\ HasRecord(pre.combat, last.b)
    /\ ~HasStun(pre.combat, last.a)
    /\ Unchanged
-----------------------------------------------------------------------------
(* The CombatSystem operations on their own, with health values on both     *)
(* sides of 0 among the arguments of update_combat_attributes.              *)

HealthArgs == {
    EmptyMap,
    [health |-> 3],
    [health |-> 0],
    [health |-> -5],
    [status_effects |-> FxIn]
}

CombatNext ==
    \/ Atomic /\ \E e \in Entities, args \in HealthArgs : update_combat_attributes(e, args)
    \/ Atomic /\ \E a \in Entities, d \in Entities : resolve_combat(a, d)
    \/ Atomic /\ \E a \in Entities, t \in Entities : initiate_combat(a, t)
    \/ Atomic /\ \E e \in Entities, n \in EffectIn, d \in DurationIn :
                    apply_status_effect(e, n, d)
    \/ Atomic /\ \E e \in Entities : update_status_effects(e)

CombatSpec == Init /\ [][CombatNext]_vars

(* C11, as stated: in every state reachable through update_combat_attributes, *)
(* resolve_combat, initiate_combat, apply_status_effect and                   *)
(* update_status_effects, the health stored in every combat record is >= 0.   *)
C11_AsStated == \A e \in DOMAIN combat : combat[e].health >= 0

-----------------------------------------------------------------------------
(* The registry with its store: a new CoordinateSystem and a new            *)
(* CoordinateSystemPersistence (TestCoordinateSystemPersistence.setUp),     *)
(* then entity and geometry operations, saves and loads.  Ids are the       *)
(* sequences of their characters.                                           *)

NoId == <<>>
IdU1 == <<"u", "_", "1">>
IdUx == <<"u", "x", "1">>
IdCap == <<"U", "_", "2">>
Ids == {IdU1, IdUx, IdCap}

IdGround == <<"g">>
GeomIds == {IdGround, <<"w", "1">>}

\* a position with two components
BadPos == <<1, 2>>

Up == <<0, 0, 1>>
Triangle == <<PA, PB, PC>>
Square == <<PA, PB, PC, <<3, 4, 0>> >>

\* (vertices, category) passed to add_static_polygon
PolygonIn == {
    <<Triangle, "wall">>,
    <<Square, "ground_plane">>,
    <<(<<PA, PB>>), "wall">>,
    <<(<<BadPos, PA, PB>>), "wall">>
}

\* (origin, normal, category) passed to add_static_plane
PlaneIn == {
    <<PA, Up, "ground_plane">>,
    <<PB, <<0, 2, 0>>, "wall">>,
    <<BadPos, Up, "ground_plane">>
}

\* the registry of TestCoordinateSystemDML.setUp: entities, a plane, a polygon
NoRegistry == [cs |-> EmptyMap, geom |-> EmptyMap]
FixRegistry ==
    [cs |-> [e \in {IdU1, IdUx} |-> IF e = IdU1 THEN PA ELSE PB],
     geom |-> [g \in GeomIds |-> IF g = IdGround THEN Plane(PA, Up, "ground_plane")
                                  ELSE Polygon(Triangle, "wall")]]

\* a new registry with a new store, the populated registry before its first
\* save, or the populated registry just saved
RegInit ==
    /\ \E reg \in {NoRegistry, FixRegistry} :
          /\ cs = reg.cs
          /\ geom = reg.geom
          /\ \E sv \in {NoRegistry, reg} :
                /\ saved = sv
                /\ db = sv.cs
                /\ gdb = GeometryRows(sv.geom)
    /\ combat = EmptyMap
    /\ last = [op |-> "init", a |-> NoId, b |-> NoId, x |-> NoArgs, ret |-> "ok",
               out |-> NoOut]
    /\ pre = [cs |-> cs, db |-> db, combat |-> combat, geom |-> geom, gdb |-> gdb,
              saved |-> saved]
    /\ steps = 0
    /\ txn = NoTransaction(saved)
    /\ astar = NoSearch
    /\ hexmap = NoHexMap

RegNext ==
    \/ Atomic /\ \E e \in Ids, p \in {PA, PB, BadPos} : add_entity(e, p)
    \/ Atomic /\ \E e \in Ids : remove_entity(e)
    \/ Atomic /\ \E e \in Ids, p \in {PC, BadPos} : update_entity_position(e, p)
    \/ Atomic /\ \E g \in GeomIds, a \in PolygonIn : add_static_polygon(g, a[1], a[2])
    \/ Atomic /\ \E g \in GeomIds, a \in PlaneIn : add_static_plane(g, a[1], a[2], a[3])
    \/ Atomic /\ \E g \in GeomIds : remove_static_geometry(g)
    \/ Atomic /\ save_coordinate_system
    \/ Atomic /\ load_coordinate_system

RegSpec == RegInit /\ [][RegNext]_vars

-----------------------------------------------------------------------------
(* C12: after add_entity(id, p) with a valid 3-component position the       *)
(* registry holds p for id; adding an id that already exists is not an      *)
(* error and replaces its position, the registry holds one record for the   *)
(* id, and the positions of all other entities are unchanged.               *)
C12_AddEntity ==
    (Did("add_entity") /\ Len(last.x.position) = 3) =>
        /\ Returned("ok")
        /\ DOMAIN cs = DOMAIN pre.cs \cup {last.a}
        /\ cs[last.a] = last.x.position
        /\ \A o \in DOMAIN pre.cs \ {last.a} : cs[o] = pre.cs[o]
        /\ db = pre.db /\ geom = pre.geom /\ gdb = pre.gdb

\* an id that was already placed elsewhere is placed again, next to another
C12_Witness ==
    /\ Did("add_entity") /\ Returned("ok")
    /\ last.a \in DOMAIN pre.cs
    /\ pre.cs[last.a] # last.x.position
    /\ cs[last.a] = last.x.position
    /\ Cardinality(DOMAIN cs) = 2

-----------------------------------------------------------------------------
(* C13: remove_entity(id) on an id that is not in the registry fails with   *)
(* NotFound (KeyError) and leaves the registry unchanged; on an id that is  *)
(* in the registry it removes exactly that entity: the id has no position   *)
(* afterwards and every other entity keeps its position.                    *)
C13_RemoveEntity ==
    Did("remove_entity") =>
        IF last.a \notin DOMAIN pre.cs
        THEN Returned("KeyError") /\ Unchanged
        ELSE /\ Returned("ok")
             /\ last.a \notin DOMAIN cs
             /\ DOMAIN cs = DOMAIN pre.cs \ {last.a}
             /\ \A o \in DOMAIN cs : cs[o] = pre.cs[o]
             /\ db = pre.db /\ geom = pre.geom /\ gdb = pre.gdb

\* one of two entities is removed
C13_Witness ==
    /\ Did("remove_entity") /\ Returned("ok")
    /\ last.a \in DOMAIN pre.cs /\ last.a \notin DOMAIN cs
    /\ Cardinality(DOMAIN pre.cs) = 2
    /\ \E o \in DOMAIN cs : cs[o] = pre.cs[o]

\* the removal of an id that is not there
C13_WitnessAbsent ==
    /\ Did("remove_entity") /\ Returned("KeyError")
    /\ last.a \notin DOMAIN pre.cs /\ pre.cs # EmptyMap /\ cs = pre.cs

-----------------------------------------------------------------------------
(* C14: add_static_polygon with an id that is already used by any static    *)
(* geometry fails with AlreadyExists (ValueError) whatever vertices and     *)
(* category are passed, and the record stored under that id (kind,          *)
(* vertices or plane data, category) stays exactly as first inserted.       *)
C14_DuplicateGeometry ==
    (Did("add_static_polygon") /\ last.a \in DOMAIN pre.geom) =>
        /\ Returned("ValueError")
        /\ geom = pre.geom
        /\ Unchanged

\* valid vertices and another category, on the id of an existing plane
C14_Witness ==
    /\ Did("add_static_polygon") /\ Returned("ValueError")
    /\ last.a \in DOMAIN pre.geom
    /\ pre.geom[last.a].type = "plane"
    /\ last.x.vertices = Triangle
    /\ last.x.category # pre.geom[last.a].category
    /\ geom[last.a] = pre.geom[last.a]

-----------------------------------------------------------------------------
(* C15: remove_static_geometry(id) on an existing geometry id removes it,   *)
(* so the id has no record afterwards and can be inserted again (an         *)
(* add_static_polygon with valid vertices on an unused id succeeds and      *)
(* stores the record); on an id that does not exist it fails with NotFound  *)
(* (KeyError) and leaves the geometry set unchanged.                        *)
C15_RemoveGeometry ==
    /\ Did("remove_static_geometry") =>
          IF last.a \notin DOMAIN pre.geom
          THEN Returned("KeyError") /\ Unchanged
          ELSE /\ Returned("ok")
               /\ last.a \notin DOMAIN geom
               /\ DOMAIN geom = DOMAIN pre.geom \ {last.a}
               /\ \A o \in DOMAIN geom : geom[o] = pre.geom[o]
               /\ cs = pre.cs /\ db = pre.db /\ gdb = pre.gdb
    /\ (/\ Did("add_static_polygon") /\ last.a \notin DOMAIN pre.geom
        /\ Len(last.x.vertices) >= 3
        /\ \A i \in 1 .. Len(last.x.vertices) : Len(last.x.vertices[i]) = 3) =>
          /\ Returned("ok")
          /\ last.a \in DOMAIN geom
          /\ geom[last.a] = [type |-> "polygon", vertices |-> last.x.vertices,
                             category |-> last.x.category]

\* one of two geometry records is removed
C15_Witness ==
    /\ Did("remove_static_geometry") /\ Returned("ok")
    /\ last.a \in DOMAIN pre.geom /\ last.a \notin DOMAIN geom
    /\ Cardinality(DOMAIN geom) = 1

\* an id is inserted while the snapshot still holds the record removed
\* from it
C15_WitnessAgain ==
    /\ Did("add_static_polygon") /\ Returned("ok")
    /\ last.a \notin DOMAIN pre.geom /\ last.a \in DOMAIN pre.gdb
    /\ last.a \in DOMAIN geom

-----------------------------------------------------------------------------
C16_WitnessEmpty ==
    /\ Did("load_coordinate_system") /\ Returned("ok")
    /\ pre.db = EmptyMap /\ pre.gdb = EmptyMap
    /\ cs # EmptyMap /\ geom # EmptyMap
    /\ last.out.registry = NoRegistry

-----------------------------------------------------------------------------
(* save_coordinate_system statement by statement.  The connection opened by *)
(* "with sqlite3.connect(...)" starts a transaction at its first DELETE;    *)
(* until conn.commit() the statements change the connection's working       *)
(* tables (txn.etab, txn.gtab) and the committed tables db and gdb, which   *)
(* are what every other connection reads, stay as they are.  An exception   *)
(* leaves the with block through a rollback, and a process that dies leaves *)
(* a journal the next connection rolls back.                                *)

\* the committed tables, and the tables a registry is saved as
Tables == [cs |-> db, geom |-> gdb]
RowsOf(reg) == [cs |-> reg.cs, geom |-> GeometryRows(reg.geom)]

\* a statement of the save: the call is still running
SaveStep(t) ==
    /\ txn' = t
    /\ UNCHANGED <<cs, db, combat, geom, gdb, saved, last, pre, steps, astar, hexmap>>

\* the outcome of the save, known when its with block is left
SaveEnded(ret) ==
    [op |-> "save_coordinate_system", a |-> NoId, b |-> NoId, x |-> NoArgs,
     ret |-> ret, out |-> NoOut]

\* with sqlite3.connect(self.db_path) as conn
save_connect ==
    /\ txn.pc = "idle"
    /\ txn' = [pc |-> "connected", etab |-> db, gtab |-> gdb,
               before |-> saved, target |-> [cs |-> cs, geom |-> geom]]
    /\ UNCHANGED <<cs, db, combat, geom, gdb, saved, astar, hexmap>>
    /\ Call("save_coordinate_system", NoId, NoId, NoArgs, "running", NoOut)

\* conn.execute("DELETE FROM entities")
save_delete_entities ==
    /\ txn.pc = "connected"
    /\ SaveStep([txn EXCEPT !.pc = "entities_deleted", !.etab = EmptyMap])

\* conn.execute("DELETE FROM geometry")
save_delete_geometry ==
    /\ txn.pc = "entities_deleted"
    /\ SaveStep([txn EXCEPT !.pc = "writing", !.gtab = EmptyMap])

\* one INSERT INTO entities of the first loop
save_insert_entity(e) ==
    /\ txn.pc = "writing"
    /\ e \in DOMAIN cs \ DOMAIN txn.etab
    /\ SaveStep([txn EXCEPT !.etab = Put(txn.etab, e, cs[e])])

\* one INSERT INTO geometry of the second loop, which starts when the first
\* loop has written every entity
save_insert_geometry(gid) ==
    /\ txn.pc = "writing"
    /\ DOMAIN txn.etab = DOMAIN cs
    /\ gid \in DOMAIN geom \ DOMAIN txn.gtab
    /\ SaveStep([txn EXCEPT !.gtab = Put(txn.gtab, gid, GeometryRow(geom[gid]))])

\* conn.commit() after the last insert and the metadata row: the working
\* tables become the committed ones in one step
save_commit ==
    /\ txn.pc = "writing"
    /\ DOMAIN txn.etab = DOMAIN cs
    /\ DOMAIN txn.gtab = DOMAIN geom
    /\ db' = txn.etab
    /\ gdb' = txn.gtab
    /\ saved' = txn.target
    /\ txn' = [txn EXCEPT !.pc = "idle"]
    /\ last' = SaveEnded("ok")
    /\ UNCHANGED <<cs, combat, geom, pre, steps, astar, hexmap>>

\* the fault leaves what the connection had written so far in the tables
save_fail_keeps_partial ==
    /\ txn.pc # "idle"
    /\ db' = txn.etab
    /\ gdb' = txn.gtab
    /\ txn' = [txn EXCEPT !.pc = "idle"]
    /\ last' = SaveEnded("OperationalError")
    /\ UNCHANGED <<cs, combat, geom, saved, pre, steps, astar, hexmap>>

\* an exception raised by a statement, or the death of the process, at any
\* point before the commit: the transaction is rolled back
save_fail ==
    /\ txn.pc # "idle"
    /\ txn' = [txn EXCEPT !.pc = "idle"]
    /\ last' = SaveEnded("OperationalError")
    /\ UNCHANGED <<cs, db, combat, geom, gdb, saved, pre, steps, astar, hexmap>>

\* the program makes its calls one after the other
Idle == txn.pc = "idle"

\* registry calls between saves, a save in statements, and a reader on
\* another connection that loads the store at any point
SaveNext ==
    \/ Atomic /\ Idle /\ \E e \in Ids, p \in {PA, PC} : add_entity(e, p)
    \/ Atomic /\ Idle /\ \E e \in Ids : remove_entity(e)
    \/ Atomic /\ Idle /\ \E g \in GeomIds, a \in PolygonIn : add_static_polygon(g, a[1], a[2])
    \/ Atomic /\ Idle /\ \E g \in GeomIds : remove_static_geometry(g)
    \/ Atomic /\ load_coordinate_system
    \/ CanStep /\ save_connect
    \/ save_delete_entities
    \/ save_delete_geometry
    \/ \E e \in Ids : save_insert_entity(e)
    \/ \E g \in GeomIds : save_insert_geometry(g)
    \/ save_commit
    \/ save_fail

SaveSpec == RegInit /\ [][SaveNext]_vars

\* C17: a save is all-or-nothing.  In every state, so at every point at which
\* a reader can look at the store, in the middle of a save and after a save
\* that failed or died half way included, the committed entity and geometry
\* tables are the complete tables of the previous completed save or the
\* complete tables of the registry being saved, never cleared or partly
\* rewritten; a reader that loads the store gets one of these two registries;
\* a completed save leaves the registry's tables and a failed one the
\* previous tables.
C17_AllOrNothing ==
    /\ Tables \in {RowsOf(txn.before), RowsOf(txn.target)}
    /\ (Did("load_coordinate_system") /\ Returned("ok")) =>
          last.out.registry \in {txn.before, txn.target}
    /\ (Did("save_coordinate_system") /\ Returned("ok")) =>
          Tables = RowsOf(txn.target)
    /\ (Did("save_coordinate_system") /\ ~Returned("ok")) =>
          Tables = RowsOf(txn.before)

\* a save that failed after it had cleared both tables and written some of
\* the rows of a registry that differs from the saved one
C17_Witness ==
    /\ Did("save_coordinate_system") /\ Returned("OperationalError")
    /\ txn.pc = "idle"
    /\ txn.etab # EmptyMap
    /\ txn.etab # txn.target.cs
    /\ txn.etab # txn.before.cs
    /\ txn.before.cs # EmptyMap
    /\ RowsOf(txn.before) # RowsOf(txn.target)

\* a reader loads the store while a save has cleared the tables
C17_WitnessReader ==
    /\ Did("load_coordinate_system") /\ Returned("ok")
    /\ txn.pc = "writing"
    /\ txn.etab = EmptyMap
    /\ last.out.registry.cs # EmptyMap

-----------------------------------------------------------------------------
(* CoordinateSystemDML: the queries, which run SELECTs on the connection    *)
(* they were given.  Ids are sequences of characters here, so that what     *)
(* LIKE matches can be told from what startswith matches.                   *)

\* the tables the SELECTs of the queries read
EntitiesTable_live == cs
EntitiesTable == db
GeometryTable == gdb

UpperCase == <<"A", "B", "C", "D", "E", "F", "G", "H", "I", "J", "K", "L", "M",
               "N", "O", "P", "Q", "R", "S", "T", "U", "V", "W", "X", "Y", "Z">>
LowerCase == <<"a", "b", "c", "d", "e", "f", "g", "h", "i", "j", "k", "l", "m",
               "n", "o", "p", "q", "r", "s", "t", "u", "v", "w", "x", "y", "z">>

\* the case folding of LIKE: ASCII letters match in either case
Lower(c) ==
    IF \E i \in 1..Len(UpperCase) : UpperCase[i] = c
    THEN LowerCase[CHOOSE i \in 1..Len(UpperCase) : UpperCase[i] = c]
    ELSE c

\* str LIKE pat as SQLite evaluates it: % matches any run of characters,
\* _ matches any one character, a letter matches in either case
RECURSIVE Like(_, _)
Like(pat, str) ==
    IF pat = <<>> THEN str = <<>>
    ELSE IF Head(pat) = "%"
         THEN Like(Tail(pat), str) \/ (str # <<>> /\ Like(pat, Tail(str)))
         ELSE /\ str # <<>>
              /\ Head(pat) = "_" \/ Lower(Head(pat)) = Lower(Head(str))
              /\ Like(Tail(pat), Tail(str))

\* str.startswith(prefix)
StartsWith(str, prefix) ==
    /\ Len(prefix) <= Len(str)
    /\ SubSeq(str, 1, Len(prefix)) = prefix

\* id.split("_")[0] if "_" in id else id
SplitType(id) ==
    IF \E i \in 1..Len(id) : id[i] = "_"
    THEN SubSeq(id, 1, (CHOOSE i \in 1..Len(id) :
                          id[i] = "_" /\ \A j \in 1..(i - 1) : id[j] # "_") - 1)
    ELSE id

\* the ids SELECT ... WHERE id LIKE 'type_prefix%' yields
LikeRows(etab, type_prefix) ==
    {id \in DOMAIN etab : Like(type_prefix \o <<"%">>, id)}

\* a slip: every row the LIKE selects is counted
CountEntities_like_only(etab, px) ==
    IF "type_prefix" \notin DOMAIN px
    THEN [count |-> Cardinality(DOMAIN etab)]
    ELSE LET sel == LikeRows(etab, px.type_prefix)
         IN  [counts |-> [t \in {SplitType(id) : id \in sel} |->
                            Cardinality({id \in sel : SplitType(id) = t})]]

\* count_entities; px holds type_prefix unless the argument is left out
CountEntities(etab, px) ==
    IF "type_prefix" \notin DOMAIN px
    THEN [count |-> Cardinality(DOMAIN etab)]
    ELSE LET sel == {id \in LikeRows(etab, px.type_prefix) :
                        StartsWith(SplitType(id), px.type_prefix)}
         IN  [counts |-> [t \in {SplitType(id) : id \in sel} |->
                            Cardinality({id \in sel : SplitType(id) = t})]]

count_entities(px) ==
    /\ UNCHANGED <<cs, db, combat, geom, gdb, saved>>
    /\ Call("count_entities", NoId, NoId, px, "ok", CountEntities(EntitiesTable, px))

\* a slip: the bounds themselves are outside the box
BoundingBox_exclusive(etab, min_coords, max_coords) ==
    [id \in {i \in DOMAIN etab : \A k \in 1..3 :
                min_coords[k] < etab[i][k] /\ etab[i][k] < max_coords[k]}
        |-> etab[id]]

\* the rows of list_entities_in_bounding_box's SELECT
BoundingBox(etab, min_coords, max_coords) ==
    [id \in {i \in DOMAIN etab : \A k \in 1..3 :
                min_coords[k] <= etab[i][k] /\ etab[i][k] <= max_coords[k]}
        |-> etab[id]]

list_entities_in_bounding_box(min_coords, max_coords) ==
    LET args == [min_coords |-> min_coords, max_coords |-> max_coords]
    IN  IF \E k \in 1..3 : min_coords[k] > max_coords[k]
        THEN Raise("list_entities_in_bounding_box", NoId, NoId, args, "ValueError")
        ELSE /\ UNCHANGED <<cs, db, combat, geom, gdb, saved>>
             /\ Call("list_entities_in_bounding_box", NoId, NoId, args, "ok",
                     [entities |-> BoundingBox(EntitiesTable, min_coords, max_coords)])

\* the rows find_nearest_entity scans: all of them when type_prefix is left
\* out or empty ("if type_prefix:"), the LIKE rows otherwise
NearestRows(etab, px) ==
    IF "type_prefix" \notin DOMAIN px THEN DOMAIN etab
    ELSE IF px.type_prefix = <<>> THEN DOMAIN etab
    ELSE LikeRows(etab, px.type_prefix)

\* every (id, pos) or None find_nearest_entity can return, one per order in
\* which the SELECT can yield its rows
NearestAnswers(etab, point, px, max_distance) ==
    {LET n == find_nearest_entity(rows, etab, point, max_distance)
     IN  IF n = <<>> THEN <<>> ELSE <<n[1], etab[n[1]]>> :
        rows \in Perms(NearestRows(etab, px))}

query_find_nearest_entity(point, px, max_distance) ==
    \E nearest \in NearestAnswers(EntitiesTable, point, px, max_distance) :
        /\ UNCHANGED <<cs, db, combat, geom, gdb, saved>>
        /\ Call("find_nearest_entity", NoId, NoId,
                [point |-> point, max_distance |-> max_distance] @@ px,
                "ok", [nearest |-> nearest])

\* the record list_geometry_by_category builds from a row
GeometryOfRow(row) ==
    IF row.type = "plane"
    THEN Plane(row.data.origin, row.data.normal, row.category)
    ELSE Polygon(row.data.vertices, row.category)

GeometryByCategory(gtab, category) ==
    [g \in {i \in DOMAIN gtab : gtab[i].category = category} |-> GeometryOfRow(gtab[g])]

list_geometry_by_category(category) ==
    /\ UNCHANGED <<cs, db, combat, geom, gdb, saved>>
    /\ Call("list_geometry_by_category", NoId, NoId, [category |-> category], "ok",
            [geometry |-> GeometryByCategory(GeometryTable, category)])

\* dist <= max_distance for a row of is_entity_near_geometry's loop: the
\* distance to the plane, or to the nearest vertex of the polygon
RowIsNear(row, pos, max_distance) ==
    IF row.type = "plane"
    THEN LET dot == (pos[1] - row.data.origin[1]) * row.data.normal[1]
                      + (pos[2] - row.data.origin[2]) * row.data.normal[2]
                      + (pos[3] - row.data.origin[3]) * row.data.normal[3]
         IN  /\ max_distance >= 0
             /\ dot * dot <= max_distance * max_distance
                               * SqDist(row.data.normal, <<0, 0, 0>>)
    ELSE /\ max_distance >= 0
         /\ \E i \in 1..Len(row.data.vertices) :
               SqDist(pos, row.data.vertices[i]) <= max_distance * max_distance

\* the loop over the rows of the category, in the order the SELECT yields
\* them: it stops at the first near row, and a plane with a zero normal
\* divides by zero when the loop reaches it
RECURSIVE NearScan(_, _, _, _, _)
NearScan(rows, gtab, pos, max_distance, i) ==
    IF i > Len(rows) THEN "False"
    ELSE LET row == gtab[rows[i]]
         IN  IF row.type = "plane" /\ SqDist(row.data.normal, <<0, 0, 0>>) = 0
             THEN "ZeroDivisionError"
             ELSE IF RowIsNear(row, pos, max_distance) THEN "True"
             ELSE NearScan(rows, gtab, pos, max_distance, i + 1)

NearAnswers(etab, gtab, entity_id, category, max_distance) ==
    IF entity_id \notin DOMAIN etab THEN {"KeyError"}
    ELSE {NearScan(rows, gtab, etab[entity_id], max_distance, 1) :
            rows \in Perms({g \in DOMAIN gtab : gtab[g].category = category})}

is_entity_near_geometry(entity_id, category, max_distance) ==
    LET args == [category |-> category, max_distance |-> max_distance]
    IN  \E r \in NearAnswers(EntitiesTable, GeometryTable, entity_id, category, max_distance) :
           IF r \in {"True", "False"}
           THEN /\ UNCHANGED <<cs, db, combat, geom, gdb, saved>>
                /\ Call("is_entity_near_geometry", entity_id, entity_id, args, "ok",
                        [near |-> r = "True"])
           ELSE Raise("is_entity_near_geometry", entity_id, entity_id, args, r)

\* the type_prefix arguments: left out, or a prefix
PrefixIn ==
    {NoArgs, [type_prefix |-> <<"u">>], [type_prefix |-> <<"u", "_">>],
     [type_prefix |-> <<"U">>]}
BoxIn == {<<PA, <<3, 4, 0>> >>, <<PB, PB>>, <<PB, PA>>}
CategoryIn == {"wall", "ground_plane"}


\* registry calls, saves and queries in any order
QueryNext ==
    \/ Atomic /\ \E e \in Ids : add_entity(e, PC)
    \/ Atomic /\ \E e \in Ids : remove_entity(e)
    \/ Atomic /\ \E g \in GeomIds : add_static_polygon(g, Square, "ground_plane")
    \/ Atomic /\ \E g \in GeomIds : remove_static_geometry(g)
    \/ Atomic /\ \E c \in CategoryIn : add_static_plane(<<"g", "0">>, PB, <<0, 0, 0>>, c)
    \/ Atomic /\ save_coordinate_system
    \/ Atomic /\ \E px \in PrefixIn : count_entities(px)
    \/ Atomic /\ \E b \in BoxIn : list_entities_in_bounding_box(b[1], b[2])
    \/ Atomic /\ \E pt \in {PB, PC}, px \in PrefixIn, d \in {0, 3} :
                    query_find_nearest_entity(pt, px, d)
    \/ Atomic /\ \E c \in CategoryIn : list_geometry_by_category(c)
    \/ Atomic /\ \E e \in {IdU1, IdCap}, c \in CategoryIn, d \in {0, 3} :
                    is_entity_near_geometry(e, c, d)

QuerySpec == RegInit /\ [][QueryNext]_vars

\* C18: every query answers from the registry as it was at the most recent
\* save, whatever was added, moved or removed since, and changes neither
\* the registry nor the durable tables.
C18_QueriesReadSnapshot ==
    LET snap == RowsOf(pre.saved)
    IN  /\ Did("count_entities") =>
              /\ last.out = CountEntities(snap.cs, last.x)
              /\ Unchanged
        /\ Did("list_entities_in_bounding_box") =>
              /\ Returned("ok") =>
                    last.out.entities =
                        BoundingBox(snap.cs, last.x.min_coords, last.x.max_coords)
              /\ Unchanged
        /\ Did("find_nearest_entity") =>
              /\ last.out.nearest \in
                    NearestAnswers(snap.cs, last.x.point, last.x, last.x.max_distance)
              /\ Unchanged
        /\ Did("list_geometry_by_category") =>
              /\ last.out.geometry =
                    [g \in {i \in DOMAIN pre.saved.geom :
                              pre.saved.geom[i].category = last.x.category}
                       |-> pre.saved.geom[g]]
              /\ Unchanged
        /\ Did("is_entity_near_geometry") =>
              /\ (IF ~Returned("ok") THEN last.ret
                  ELSE IF last.out.near THEN "True" ELSE "False") \in
                    NearAnswers(snap.cs, snap.geom, last.a, last.x.category,
                                last.x.max_distance)
              /\ Unchanged

\* a count taken after an unsaved change of the registry: the answer is the
\* size of the saved registry, not of the live one
C18_Witness ==
    /\ Did("count_entities")
    /\ "type_prefix" \notin DOMAIN last.x
    /\ pre.saved.cs # EmptyMap
    /\ last.out.count = Cardinality(DOMAIN pre.saved.cs)
    /\ last.out.count # Cardinality(DOMAIN cs)

\* a proximity query finds an entity near geometry that the live registry
\* no longer holds
C18_WitnessGeometry ==
    /\ Did("is_entity_near_geometry") /\ Returned("ok")
    /\ last.out.near
    /\ geom = EmptyMap \/ last.a \notin DOMAIN cs

\* C20: find_nearest_entity(point, prefix, max_distance) returns an entity
\* of the snapshot whose id starts with prefix, compared case-sensitively and
\* character by character (every entity when no prefix is given), that lies
\* within max_distance of point and is at least as near as every other such
\* entity; it returns none exactly when no entity passes the prefix filter
\* and the cutoff.
C20_AsStated ==
    Did("find_nearest_entity") =>
        LET prefix == IF "type_prefix" \in DOMAIN last.x THEN last.x.type_prefix
                      ELSE <<>>
            d2(id) == SqDist(last.x.point, pre.db[id])
            qualifying ==
                {id \in DOMAIN pre.db :
                    /\ StartsWith(id, prefix)
                    /\ last.x.max_distance >= 0
                    /\ d2(id) <= last.x.max_distance * last.x.max_distance}
        IN  IF last.out.nearest = <<>> THEN qualifying = {}
            ELSE /\ last.out.nearest[1] \in qualifying
                 /\ last.out.nearest[2] = pre.db[last.out.nearest[1]]
                 /\ \A o \in qualifying : d2(last.out.nearest[1]) <= d2(o)

-----------------------------------------------------------------------------
(* Entity: an object that moves and removes its entity in the registry and  *)
(* saves the registry when it was given a persistence store.                *)

\* Entity.__init__ (of Unit, City and every subclass, through super): add_entity
\* with TypeError and ValueError raised again as ValueError; nothing is saved
Entity_init(e, position) ==
    LET args == [position |-> position]
    IN  IF ~ValidPosition(position)
        THEN Raise("Entity.__init__", e, e, args, "ValueError")
        ELSE /\ cs' = Put(cs, e, position)
             /\ UNCHANGED <<db, gdb, saved, combat, geom>>
             /\ Call("Entity.__init__", e, e, args, "ok", NoOut)

\* a slip: the move is not followed by a save
Entity_update_position_no_save(e, new_position, persistence) ==
    LET args == [position |-> new_position, persistence |-> persistence]
    IN  IF e \notin DOMAIN cs
        THEN Raise("Entity.update_position", e, e, args, "KeyError")
        ELSE IF ~ValidPosition(new_position)
        THEN Raise("Entity.update_position", e, e, args, "TypeError")
        ELSE /\ cs' = Put(cs, e, new_position)
             /\ UNCHANGED <<db, gdb, saved, combat, geom>>
             /\ Call("Entity.update_position", e, e, args, "ok", NoOut)

\* Entity.update_position: update_entity_position, then save_coordinate_system
\* if self._persistence
Entity_update_position(e, new_position, persistence) ==
    LET args == [position |-> new_position, persistence |-> persistence]
    IN  IF e \notin DOMAIN cs
        THEN Raise("Entity.update_position", e, e, args, "KeyError")
        ELSE IF ~ValidPosition(new_position)
        THEN Raise("Entity.update_position", e, e, args, "TypeError")
        ELSE /\ cs' = Put(cs, e, new_position)
             /\ IF persistence
                THEN /\ db' = cs'
                     /\ gdb' = GeometryRows(geom)
                     /\ saved' = [cs |-> cs', geom |-> geom]
                ELSE UNCHANGED <<db, gdb, saved>>
             /\ UNCHANGED <<combat, geom>>
             /\ Call("Entity.update_position", e, e, args, "ok", NoOut)

\* Entity.remove: remove_entity, then save_coordinate_system if
\* self._persistence
Entity_remove(e, persistence) ==
    LET args == [persistence |-> persistence]
    IN  IF e \notin DOMAIN cs
        THEN Raise("Entity.remove", e, e, args, "KeyError")
        ELSE /\ cs' = Del(cs, e)
             /\ IF persistence
                THEN /\ db' = cs'
                     /\ gdb' = GeometryRows(geom)
                     /\ saved' = [cs |-> cs', geom |-> geom]
                ELSE UNCHANGED <<db, gdb, saved>>
             /\ UNCHANGED <<combat, geom>>
             /\ Call("Entity.remove", e, e, args, "ok", NoOut)

\* entities that are constructed, move and leave, fights and poison; a
\* construction is not saved
EngineNext ==
    \/ Atomic /\ \E e \in Entities, p \in {PB, BadPos} : Entity_init(e, p)
    \/ Atomic /\ \E e \in Entities, p \in {PC, BadPos}, persistence \in BOOLEAN :
                    Entity_update_position(e, p, persistence)
    \/ Atomic /\ \E e \in Entities, persistence \in BOOLEAN : Entity_remove(e, persistence)
    \/ Atomic /\ \E e \in Entities : update_combat_attributes(e, [health |-> 3])
    \/ Atomic /\ \E a \in Entities, d \in Entities : resolve_combat(a, d)
    \/ Atomic /\ \E e \in Entities : apply_status_effect(e, "poisoned", 1)
    \/ Atomic /\ \E e \in Entities : update_status_effects(e)

EngineSpec == Init /\ [][EngineNext]_vars

\* C19: the operations that move or remove an entity through the engine end
\* with the snapshot holding the entities of the registry: a move or a
\* removal by an Entity that has a persistence store, a defeat in
\* resolve_combat and a lethal tick of update_status_effects each leave the
\* snapshot's entities equal to the registry's, ids and positions, whatever
\* unsaved changes the registry had before.
C19_Resnapshot ==
    /\ (Did("Entity.update_position") /\ Returned("ok") /\ last.x.persistence) =>
          /\ cs[last.a] = last.x.position
          /\ DOMAIN db = DOMAIN cs
          /\ db = cs
    /\ (Did("Entity.remove") /\ Returned("ok") /\ last.x.persistence) =>
          /\ last.a \notin DOMAIN cs
          /\ DOMAIN db = DOMAIN cs
          /\ db = cs
    /\ (Did("resolve_combat") /\ Returned("true")) =>
          /\ last.b \notin DOMAIN cs
          /\ DOMAIN db = DOMAIN cs
          /\ db = cs
    /\ (Did("update_status_effects") /\ Returned("ok")
          /\ last.a \in DOMAIN pre.cs /\ last.a \notin DOMAIN cs) =>
          /\ DOMAIN db = DOMAIN cs
          /\ db = cs

\* an Entity with a store leaves a registry whose earlier changes were never
\* saved: snapshot and registry differed before and agree after
C19_Witness ==
    /\ Did("Entity.remove") /\ Returned("ok") /\ last.x.persistence
    /\ DOMAIN pre.db # DOMAIN pre.cs
    /\ pre.db # Del(pre.cs, last.a)
    /\ db = cs

\* the same for a move and a defeat, and a lethal tick that rewrites the
\* snapshot
C19_WitnessMove ==
    /\ Did("Entity.update_position") /\ Returned("ok") /\ last.x.persistence
    /\ pre.db # pre.cs
    /\ db = cs
C19_WitnessDefeat ==
    /\ Did("resolve_combat") /\ Returned("true")
    /\ pre.db # pre.cs
    /\ db = cs
C19_WitnessPoison ==
    /\ Did("update_status_effects") /\ Returned("ok")
    /\ last.a \in DOMAIN pre.cs /\ last.a \notin DOMAIN cs
    /\ last.a \in DOMAIN pre.db
    /\ db = cs

-----------------------------------------------------------------------------
\* the sum of the counts of a mapping
RECURSIVE SumCounts(_)
SumCounts(f) ==
    IF DOMAIN f = {} THEN 0
    ELSE LET k == CHOOSE x \in DOMAIN f : TRUE
         IN  f[k] + SumCounts([x \in DOMAIN f \ {k} |-> f[x]])

\* count_entities against a set of ids that are to be counted: each of them
\* once under its first segment, nothing else
CountsExactly(counted) ==
    /\ DOMAIN last.out = {"counts"}
    /\ DOMAIN last.out.counts = {SplitType(id) : id \in counted}
    /\ \A t \in DOMAIN last.out.counts :
          last.out.counts[t] = Cardinality({id \in counted : SplitType(id) = t})
    /\ SumCounts(last.out.counts) = Cardinality(counted)

\* C21 as stated: count_entities(prefix) counts every entity of the snapshot
\* whose id starts with prefix once, under the part of its id before the
\* first '_'; the counts sum to the number of ids that start with prefix;
\* without a prefix the result is the number of entities.
C21_AsStated ==
    Did("count_entities") =>
        IF "type_prefix" \notin DOMAIN last.x
        THEN last.out = [count |-> Cardinality(DOMAIN pre.db)]
        ELSE CountsExactly({id \in DOMAIN pre.db : StartsWith(id, last.x.type_prefix)})

\* C21 amended: count_entities(prefix) counts every entity of the snapshot
\* whose first id segment (the part before the first '_', the whole id when
\* it has none) starts with prefix, case-sensitively and character by
\* character, once under that segment; the counts sum to the number of these
\* ids; without a prefix the result is the number of entities.
C21_CountByType ==
    Did("count_entities") =>
        /\ IF "type_prefix" \notin DOMAIN last.x
           THEN last.out = [count |-> Cardinality(DOMAIN pre.db)]
           ELSE CountsExactly({id \in DOMAIN pre.db :
                                 StartsWith(SplitType(id), last.x.type_prefix)})
        /\ Unchanged

\* a count with two keys that leaves out an entity whose id differs from the
\* prefix in case only
C21_Witness ==
    /\ Did("count_entities")
    /\ "type_prefix" \in DOMAIN last.x
    /\ Cardinality(DOMAIN last.out.counts) = 2
    /\ SumCounts(last.out.counts) = 2
    /\ Cardinality(DOMAIN pre.db) = 3

\* a prefix that reaches past the first segment: nothing is counted although
\* an id starts with it
C21_WitnessSegment ==
    /\ Did("count_entities")
    /\ "type_prefix" \in DOMAIN last.x
    /\ \E id \in DOMAIN pre.db : StartsWith(id, last.x.type_prefix)
    /\ last.out.counts = EmptyMap

\* C22: list_entities_in_bounding_box(min, max) fails with ValueError when
\* min exceeds max on some axis; otherwise it returns exactly the entities of
\* the snapshot whose position lies between min and max on all three axes,
\* the bounds included, each with its stored position.
C22_BoundingBox ==
    Did("list_entities_in_bounding_box") =>
        LET lo == last.x.min_coords
            hi == last.x.max_coords
        IN  /\ IF \E k \in 1..3 : lo[k] > hi[k]
               THEN Returned("ValueError")
               ELSE /\ Returned("ok")
                    /\ \A id \in DOMAIN pre.db :
                          id \in DOMAIN last.out.entities <=>
                             /\ lo[1] <= pre.db[id][1] /\ pre.db[id][1] <= hi[1]
                             /\ lo[2] <= pre.db[id][2] /\ pre.db[id][2] <= hi[2]
                             /\ lo[3] <= pre.db[id][3] /\ pre.db[id][3] <= hi[3]
                    /\ \A id \in DOMAIN last.out.entities :
                          /\ id \in DOMAIN pre.db
                          /\ last.out.entities[id] = pre.db[id]
            /\ Unchanged

\* a box that is a single point returns the entity that sits on it and leaves
\* out another entity of the snapshot
C22_Witness ==
    /\ Did("list_entities_in_bounding_box") /\ Returned("ok")
    /\ last.x.min_coords = last.x.max_coords
    /\ Cardinality(DOMAIN last.out.entities) = 1
    /\ Cardinality(DOMAIN pre.db) >= 2

\* min beyond max on the x axis
C22_WitnessInvalid ==
    /\ Did("list_entities_in_bounding_box") /\ Returned("ValueError")
    /\ last.x.min_coords[1] > last.x.max_coords[1]
    /\ pre.db # EmptyMap

\* C23: is_entity_near_geometry(entity, category, max_distance) fails with
\* KeyError when the entity is not in the snapshot; otherwise it returns true
\* exactly when some geometry record of the category is within max_distance
\* of the entity, by the distance to the plane for a plane and by the
\* distance to the nearest vertex for a polygon, and false when the category
\* has no geometry.
C23_AsStated ==
    Did("is_entity_near_geometry") =>
        IF last.a \notin DOMAIN pre.db THEN Returned("KeyError")
        ELSE /\ Returned("ok")
             /\ last.out.near <=>
                   \E g \in DOMAIN pre.gdb :
                      /\ pre.gdb[g].category = last.x.category
                      /\ RowIsNear(pre.gdb[g], pre.db[last.a], last.x.max_distance)
             /\ (\A g \in DOMAIN pre.gdb : pre.gdb[g].category # last.x.category)
                   => ~last.out.near

-----------------------------------------------------------------------------
(* HexUtils and Pathfinding.  A cartesian position is <<X, Y, 0>> on the    *)
(* lattice with x = X * HEX_SIZE / 2 and y = Y * HEX_SIZE * sqrt(3) / 6, on *)
(* which the centre and the six vertices of every hex cell lie; the         *)
(* arithmetic of the code is exact on it.                                   *)

Abs(n) == IF n < 0 THEN -n ELSE n

\* HexUtils.hex_to_cartesian(q, r, size)
hex_to_cartesian(q, r) == <<3 * q, 6 * r + 3 * q, 0>>

\* HexUtils.cartesian_to_hex(x, y, size): the fractional axial coordinates in
\* sixths, rounded on the cube coordinates; round(n / 6) takes a half to the
\* even neighbour
cartesian_to_hex(X, Y) ==
    LET Round6(n) == IF n % 6 < 3 THEN n \div 6
                     ELSE IF n % 6 > 3 THEN (n \div 6) + 1
                     ELSE IF (n \div 6) % 2 = 0 THEN n \div 6 ELSE (n \div 6) + 1
        x6 == 2 * X
        y6 == Y - X
        z6 == -x6 - y6
        rx == Round6(x6)
        ry == Round6(y6)
        rz == Round6(z6)
        x_diff == Abs(6 * rx - x6)
        y_diff == Abs(6 * ry - y6)
        z_diff == Abs(6 * rz - z6)
    IN  IF x_diff > y_diff /\ x_diff > z_diff THEN <<-ry - rz, ry>>
        ELSE IF y_diff > z_diff THEN <<rx, -rx - rz>>
        ELSE <<rx, ry>>

CellOf(pos) == cartesian_to_hex(pos[1], pos[2])

\* f"hex_{q}_{r}"
HexId(q, r) == <<"hex", q, r>>

\* HexUtils.get_hex_vertices(q, r, size)
get_hex_vertices(q, r) ==
    LET c == hex_to_cartesian(q, r)
    IN  << <<c[1] + 2, c[2], 0>>, <<c[1] + 1, c[2] + 3, 0>>, <<c[1] - 1, c[2] + 3, 0>>,
           <<c[1] - 2, c[2], 0>>, <<c[1] - 1, c[2] - 3, 0>>, <<c[1] + 1, c[2] - 3, 0>> >>

\* TerrainType.TYPES[category]["move_cost"]
MoveCost ==
    [ocean |-> 2, plain |-> 1, hill |-> 2, mountain |-> 4,
     stream |-> 3, forest |-> 3, desert |-> 2, swamp |-> 4]

\* a slip: the estimate counts five per hex
hex_distance_scaled(a, b) ==
    LET c1 == CellOf(a)
        c2 == CellOf(b)
    IN  5 * Max(Abs(c1[1] - c2[1]),
                 Max(Abs(c1[2] - c2[2]), Abs((c1[1] + c1[2]) - (c2[1] + c2[2]))))

\* Pathfinding.hex_distance(a, b)
hex_distance(a, b) ==
    LET c1 == CellOf(a)
        c2 == CellOf(b)
    IN  Max(Abs(c1[1] - c2[1]),
             Max(Abs(c1[2] - c2[2]), Abs((c1[1] + c1[2]) - (c2[1] + c2[2]))))

\* the six cells around (q, r), in the order of the list in get_neighbors
NeighborCells(q, r) ==
    << <<q + 1, r>>, <<q - 1, r>>, <<q, r + 1>>, <<q, r - 1>>,
       <<q + 1, r - 1>>, <<q - 1, r + 1>> >>

\* cs.get_static_geometry(hex_id) is not None
Registered(g, cell) == HexId(cell[1], cell[2]) \in DOMAIN g

\* Pathfinding.get_neighbors(pos, cs, dml): the centres of the registered
\* cells around the cell of pos
get_neighbors(pos, g) ==
    LET c == CellOf(pos)
        around == NeighborCells(c[1], c[2])
        kept == SelectSeq(around, LAMBDA n : Registered(g, n))
    IN  [i \in 1..Len(kept) |-> hex_to_cartesian(kept[i][1], kept[i][2])]

\* open_set.append(entry); open_set.sort(), in the order of tuples: by
\* f_score, then by position
RECURSIVE PushSorted(_, _)
PushSorted(open_set, entry) ==
    LET EntryLeq(a, b) ==
            \/ a[1] < b[1]
            \/ /\ a[1] = b[1]
               /\ \/ a[2][1] < b[2][1]
                  \/ a[2][1] = b[2][1] /\ a[2][2] <= b[2][2]
    IN  IF open_set = <<>> THEN <<entry>>
        ELSE IF EntryLeq(Head(open_set), entry)
        THEN <<Head(open_set)>> \o PushSorted(Tail(open_set), entry)
        ELSE <<entry>> \o open_set

\* the while loop that walks came_from back from current
RECURSIVE WalkBack(_, _)
WalkBack(current, came_from) ==
    IF current \in DOMAIN came_from
    THEN WalkBack(came_from[current], came_from) \o <<current>>
    ELSE <<>>

\* a slip: the path is returned without the start
ReconstructPath_no_start(start, current, came_from) == WalkBack(current, came_from)

\* path.append(start); return path[::-1]
ReconstructPath(start, current, came_from) == <<start>> \o WalkBack(current, came_from)

SearchStep(a) ==
    /\ astar' = a
    /\ UNCHANGED <<cs, db, combat, geom, gdb, saved, last, pre, steps, txn, hexmap>>

\* the call and the assignments before the loop
a_star_begin(start, goal) ==
    /\ astar.pc = "idle"
    /\ SearchStep([NoSearch EXCEPT !.pc = "loop", !.start = start, !.goal = goal,
                       !.open_set = << <<0, start>> >>,
                       !.g_score = Put(EmptyMap, start, 0)])

\* while open_set fails: return []
a_star_exhausted ==
    /\ astar.pc = "loop"
    /\ astar.open_set = <<>>
    /\ SearchStep([astar EXCEPT !.pc = "done", !.path = <<>>])

\* one round of the while loop that ends in the goal test: the path is
\* returned
a_star_goal ==
    /\ astar.pc = "loop"
    /\ astar.open_set # <<>>
    /\ LET current == Head(astar.open_set)[2]
       IN  /\ hex_distance(current, astar.goal) < 1
           /\ SearchStep([astar EXCEPT !.pc = "done", !.current = current,
                              !.open_set = Tail(astar.open_set),
                              !.path = ReconstructPath(astar.start, current,
                                                       astar.came_from)])

\* one round of the while loop that fails the goal test: current is popped
\* and its neighbours are listed
a_star_pop ==
    /\ astar.pc = "loop"
    /\ astar.open_set # <<>>
    /\ LET current == Head(astar.open_set)[2]
           nbrs == get_neighbors(current, geom)
       IN  /\ hex_distance(current, astar.goal) >= 1
           /\ SearchStep([astar EXCEPT !.pc = IF nbrs = <<>> THEN "loop" ELSE "for",
                              !.current = current,
                              !.open_set = Tail(astar.open_set),
                              !.neighbors = nbrs, !.i = 1])

\* one round of the for loop over the neighbours of current
a_star_neighbor ==
    /\ astar.pc = "for"
    /\ LET neighbor == astar.neighbors[astar.i]
           c == CellOf(neighbor)
           hex_id == HexId(c[1], c[2])
           old == [open_set |-> astar.open_set, came_from |-> astar.came_from,
                   g_score |-> astar.g_score]
           st == IF hex_id \notin DOMAIN geom THEN old       \* if not terrain: continue
                 ELSE LET move_cost == MoveCost[geom[hex_id].category]
                          tentative_g == astar.g_score[astar.current] + move_cost
                      IN  IF neighbor \notin DOMAIN astar.g_score
                               \/ tentative_g < astar.g_score[neighbor]
                          THEN [open_set |-> PushSorted(astar.open_set,
                                   <<tentative_g + hex_distance(neighbor, astar.goal),
                                     neighbor>>),
                                came_from |-> Put(astar.came_from, neighbor, astar.current),
                                g_score |-> Put(astar.g_score, neighbor, tentative_g)]
                          ELSE old
       IN  SearchStep([astar EXCEPT
                          !.pc = IF astar.i = Len(astar.neighbors) THEN "loop" ELSE "for",
                          !.i = astar.i + 1,
                          !.open_set = st.open_set,
                          !.came_from = st.came_from,
                          !.g_score = st.g_score])

\* the cells of the maps: a strip from (0,0) to (3,0) and two cells beside it
PathCells == {<<0, 0>>, <<1, 0>>, <<2, 0>>, <<3, 0>>, <<1, -1>>, <<2, -1>>}

\* the registry HexMap leaves: a polygon per cell of the map, its terrain as
\* category.  A cell is off the map, plain or mountain; the two ends of the
\* strip are off the map or plain
PathInit ==
    /\ \E layout \in [PathCells -> {"none", "plain", "mountain"}] :
          /\ layout[<<0, 0>>] # "mountain" /\ layout[<<3, 0>>] # "mountain"
          /\ geom = [id \in {HexId(c[1], c[2]) :
                                c \in {d \in PathCells : layout[d] # "none"}} |->
                        Polygon(get_hex_vertices(id[2], id[3]), layout[<<id[2], id[3]>>])]
    /\ cs = EmptyMap
    /\ db = EmptyMap
    /\ gdb = EmptyMap
    /\ combat = EmptyMap
    /\ saved = NoRegistry
    /\ last = [op |-> "init", a |-> NoId, b |-> NoId, x |-> NoArgs, ret |-> "ok",
               out |-> NoOut]
    /\ pre = [cs |-> cs, db |-> db, combat |-> combat, geom |-> geom, gdb |-> gdb,
              saved |-> saved]
    /\ steps = 0
    /\ txn = NoTransaction(saved)
    /\ astar = NoSearch
    /\ hexmap = NoHexMap

\* start: the centre of cell (0,0) or a point beside it in the cell;
\* goal: the centre of cell (3,0) or a point in cell (2,-1)
PathNext ==
    \/ \E start \in {<<0, 0, 0>>, <<1, 1, 0>>}, goal \in {<<9, 9, 0>>, <<7, 1, 0>>} :
          a_star_begin(start, goal)
    \/ a_star_exhausted
    \/ a_star_goal
    \/ a_star_pop
    \/ a_star_neighbor

PathSpec == PathInit /\ [][PathNext]_vars

\* a call that was made runs on: its loop is not suspended for ever
PathLive ==
    PathSpec /\ WF_vars(a_star_exhausted \/ a_star_goal \/ a_star_pop \/ a_star_neighbor)

\* the cells beside a cell
Adjacent(c, d) == \E i \in 1..6 : NeighborCells(c[1], c[2])[i] = d

\* the cells that can be reached from the cells of R in at most k moves, each
\* move into a registered cell beside the current one
RECURSIVE ReachWithin(_, _, _)
ReachWithin(R, g, k) ==
    IF k = 0 THEN R
    ELSE ReachWithin(R \cup {d \in PathCells : Registered(g, d) /\ \E c \in R : Adjacent(c, d)},
                     g, k - 1)

Reachable(start, goal, g) ==
    CellOf(goal) \in ReachWithin({CellOf(start)}, g, Cardinality(PathCells))

\* C24: a_star(start, goal) terminates, and it returns the empty sequence or
\* a path that begins with start, ends in the goal's hex cell, moves between
\* adjacent cells and enters registered cells only; it returns the empty
\* sequence exactly when the goal's cell cannot be reached from start through
\* registered cells.
C24_PathOrEmpty ==
    /\ [](astar.pc = "done" =>
            LET path == astar.path
            IN  /\ \/ path = <<>>
                   \/ /\ path[1] = astar.start
                      /\ CellOf(path[Len(path)]) = CellOf(astar.goal)
                      /\ \A i \in 1..(Len(path) - 1) :
                             Adjacent(CellOf(path[i]), CellOf(path[i + 1]))
                      /\ \A i \in 2..Len(path) : Registered(geom, CellOf(path[i]))
                /\ path = <<>> <=> ~Reachable(astar.start, astar.goal, geom))
    /\ (astar.pc \in {"loop", "for"}) ~> (astar.pc = "done")

\* a path of five positions around a gap in the strip
C24_Witness ==
    /\ astar.pc = "done"
    /\ Len(astar.path) = 5
    /\ \E c \in PathCells : ~Registered(geom, c)

\* no path: the goal's cell is registered but cut off
C24_WitnessEmpty ==
    /\ astar.pc = "done"
    /\ astar.path = <<>>
    /\ Registered(geom, CellOf(astar.goal))
    /\ Registered(geom, <<1, 0>>)

\* the cost of a path: the move_cost of every cell entered after the start
RECURSIVE PathCost(_, _)
PathCost(path, g) ==
    IF Len(path) <= 1 THEN 0
    ELSE LET c == CellOf(path[Len(path)])
         IN  PathCost(SubSeq(path, 1, Len(path) - 1), g)
                 + MoveCost[g[HexId(c[1], c[2])].category]

\* the cheapest cost of reaching each cell in at most k more moves, from the
\* costs d of the cells reached so far
RECURSIVE CheapestWithin(_, _, _)
CheapestWithin(d, g, k) ==
    IF k = 0 THEN d
    ELSE LET MinOf(S) == CHOOSE m \in S : \A n \in S : m <= n
             entered == {c \in PathCells :
                            Registered(g, c) /\ \E e \in DOMAIN d : Adjacent(e, c)}
             via(c) == {d[e] + MoveCost[g[HexId(c[1], c[2])].category] :
                            e \in {e \in DOMAIN d : Adjacent(e, c)}}
             next == [c \in DOMAIN d \cup entered |->
                         IF c \notin entered THEN d[c]
                         ELSE IF c \notin DOMAIN d THEN MinOf(via(c))
                         ELSE MinOf(via(c) \cup {d[c]})]
         IN  CheapestWithin(next, g, k - 1)

\* the minimum cost of a path from start to the goal's cell
CheapestCost(start, goal, g) ==
    CheapestWithin(Put(EmptyMap, CellOf(start), 0), g, Cardinality(PathCells))[CellOf(goal)]

\* C25: the path a_star returns has the minimum total cost among the paths
\* from start to the goal's cell over registered cells, the cost of a path
\* being the sum of the move_cost of the cells entered after the start; on the
\* strip of plain hexes from (0,0) to (3,0) it has 4 cells and cost 3.
C25_CheapestPath ==
    (astar.pc = "done" /\ astar.path # <<>>) =>
        /\ PathCost(astar.path, geom) = CheapestCost(astar.start, astar.goal, geom)
        /\ (/\ DOMAIN geom = {HexId(0, 0), HexId(1, 0), HexId(2, 0), HexId(3, 0)}
            /\ \A id \in DOMAIN geom : geom[id].category = "plain"
            /\ CellOf(astar.goal) = <<3, 0>>) =>
               Len(astar.path) = 4 /\ PathCost(astar.path, geom) = 3

\* the cheapest path is not the shortest: a mountain on the strip is walked
\* around
C25_Witness ==
    /\ astar.pc = "done"
    /\ Len(astar.path) = 5
    /\ CellOf(astar.goal) = <<3, 0>>
    /\ PathCost(astar.path, geom) = 4
    /\ Registered(geom, <<1, 0>>)
    /\ Registered(geom, <<2, 0>>)

\* the strip of plain hexes
C25_WitnessStrip ==
    /\ astar.pc = "done"
    /\ DOMAIN geom = {HexId(0, 0), HexId(1, 0), HexId(2, 0), HexId(3, 0)}
    /\ \A id \in DOMAIN geom : geom[id].category = "plain"
    /\ Len(astar.path) = 4
    /\ PathCost(astar.path, geom) = 3

-----------------------------------------------------------------------------
\* C26: constructing an Entity with an entity_id that already exists in the
\* coordinate system raises ValueError and leaves the position registered
\* under that id as it was.
C26_AsStated ==
    (Did("Entity.__init__") /\ last.a \in DOMAIN pre.cs) =>
        /\ Returned("ValueError")
        /\ cs = pre.cs

\* C29: every combat record belongs to an entity that is present in the
\* registry, in every state reached through the operations of Entity and of
\* CombatSystem.
C29_AsStated == \A e \in DOMAIN combat : e \in DOMAIN cs

-----------------------------------------------------------------------------
(* HexMap.generate_map: the first pass assigns a terrain to every cell, the *)
(* rule pass visits the cells in the order of the two for loops and writes  *)
(* the result of apply_terrain_rules into hex_terrain, then the cells are   *)
(* registered as polygons, resources are placed and the registry is saved.  *)

Terrains == {"ocean", "plain", "hill", "mountain", "stream", "forest", "desert", "swamp"}

\* HexMap.TERRAIN_RULES; every weight of TerrainType is positive, so a draw
\* with random.choices can give each element of a preferred list
TERRAIN_RULES ==
    [ocean |-> [allowed |-> {"ocean", "stream", "plain", "swamp"},
                preferred |-> {"ocean", "stream"},
                forbidden |-> {"mountain", "hill", "forest", "desert"}],
     plain |-> [allowed |-> Terrains,
                preferred |-> {"plain", "hill", "forest"},
                forbidden |-> {}],
     hill |-> [allowed |-> {"plain", "hill", "mountain", "stream", "forest"},
               preferred |-> {"hill", "mountain"},
               forbidden |-> {"ocean", "desert"}],
     mountain |-> [allowed |-> {"mountain", "hill", "plain"},
                   preferred |-> {"mountain", "hill"},
                   forbidden |-> {"ocean", "stream", "swamp", "desert"}],
     stream |-> [allowed |-> {"stream", "plain", "ocean", "hill", "swamp"},
                 preferred |-> {"stream", "ocean", "plain"},
                 forbidden |-> {"mountain", "desert"}],
     forest |-> [allowed |-> {"plain", "hill", "forest", "stream"},
                 preferred |-> {"forest", "plain"},
                 forbidden |-> {"ocean", "mountain", "desert"}],
     desert |-> [allowed |-> {"plain", "desert"},
                 preferred |-> {"desert", "plain"},
                 forbidden |-> {"ocean", "stream", "hill", "mountain", "forest", "swamp"}],
     swamp |-> [allowed |-> {"plain", "stream", "ocean", "swamp"},
                preferred |-> {"swamp", "stream"},
                forbidden |-> {"mountain", "hill", "desert"}]]

\* HexMap(width, height, cs, persistence): a row of three cells
MapSize == [width |-> 2, height |-> 0]

\* range(-self.width // 2, self.width // 2 + 1), and the same for the height
QRange == ((-MapSize.width) \div 2) .. (MapSize.width \div 2)
RRange == ((-MapSize.height) \div 2) .. (MapSize.height \div 2)

\* the cells in the order of for q ...: for r ...
MapCells ==
    LET nr == Cardinality(RRange)
        q0 == (-MapSize.width) \div 2
        r0 == (-MapSize.height) \div 2
    IN  [k \in 1..(Cardinality(QRange) * nr) |-> <<q0 + ((k - 1) \div nr), r0 + ((k - 1) % nr)>>]

MapIds == {HexId(MapCells[k][1], MapCells[k][2]) : k \in DOMAIN MapCells}

\* neighbor_terrains of apply_terrain_rules: the terrains of the cells
\* HexMap.get_neighbors(q, r) lists, those around (q, r) that lie on the map
NeighborTerrains(q, r, hex_terrain) ==
    LET neighbors == SelectSeq(NeighborCells(q, r),
                               LAMBDA n : n[1] \in QRange /\ n[2] \in RRange)
    IN  [i \in 1..Len(neighbors) |->
            LET id == HexId(neighbors[i][1], neighbors[i][2])
            IN  IF id \in DOMAIN hex_terrain THEN hex_terrain[id] ELSE "plain"]

\* a slip: a forbidden neighbour makes the cell draw from its own preferred
\* list
apply_terrain_rules_own_preferred(q, r, terrain, hex_terrain) ==
    LET neighbor_terrains == NeighborTerrains(q, r, hex_terrain)
        rules == TERRAIN_RULES[terrain]
    IN  IF \E i \in DOMAIN neighbor_terrains :
               neighbor_terrains[i] \notin rules.allowed
        THEN rules.preferred
        ELSE {terrain}

\* HexMap.apply_terrain_rules(q, r, terrain): the categories the call can
\* return, one per outcome of random.choices
apply_terrain_rules(q, r, terrain, hex_terrain) ==
    LET neighbor_terrains == NeighborTerrains(q, r, hex_terrain)
        rules == TERRAIN_RULES[terrain]
        offending == {i \in DOMAIN neighbor_terrains :
                         neighbor_terrains[i] \in rules.forbidden}
    IN  IF offending # {}
        THEN LET first == CHOOSE i \in offending : \A j \in offending : i <= j
             IN  TERRAIN_RULES[neighbor_terrains[first]].preferred
        ELSE IF \E i \in DOMAIN neighbor_terrains :
                    neighbor_terrains[i] \notin rules.allowed
        THEN rules.preferred
        ELSE {terrain}

\* step 1 of generate_map: a terrain for every cell, from the seeds or from
\* the weighted draw
generate_map_first_pass ==
    /\ hexmap.pc = "idle"
    /\ \E assigned \in [MapIds -> Terrains] :
          hexmap' = [NoHexMap EXCEPT !.pc = "rules", !.first_pass = assigned,
                                     !.hex_terrain = assigned, !.cursor = 1]
    /\ UNCHANGED <<cs, db, combat, geom, gdb, saved, last, pre, steps, txn, astar>>

\* one round of the loops of step 2: hex_terrain[hex_id] is read, passed to
\* apply_terrain_rules and written
generate_map_rule ==
    /\ hexmap.pc = "rules"
    /\ LET cell == MapCells[hexmap.cursor]
           hex_id == HexId(cell[1], cell[2])
           terrain == hexmap.hex_terrain[hex_id]
       IN  \E new_terrain \in apply_terrain_rules(cell[1], cell[2], terrain,
                                                  hexmap.hex_terrain) :
              hexmap' = [hexmap EXCEPT
                          !.pc = IF hexmap.cursor = Len(MapCells) THEN "collect"
                                 ELSE "rules",
                          !.cursor = hexmap.cursor + 1,
                          !.before = hexmap.hex_terrain,
                          !.call = <<cell, terrain, new_terrain>>,
                          !.hex_terrain = Put(hexmap.hex_terrain, hex_id, new_terrain)]
    /\ UNCHANGED <<cs, db, combat, geom, gdb, saved, last, pre, steps, txn, astar>>

\* steps 3 to 5 of generate_map and the save: every cell becomes a polygon
\* with its terrain as category, some of the cells that can hold a resource
\* get an entity and a resource type, and the registry is saved
generate_map_collect ==
    /\ hexmap.pc = "collect"
    /\ \E placed \in SUBSET {c \in QRange \X RRange :
                                hexmap.hex_terrain[HexId(c[1], c[2])]
                                    \notin {"ocean", "mountain", "swamp"}} :
       \E types \in [{<<"resource", c[1], c[2]>> : c \in placed} -> {"wheat", "iron"}] :
          /\ hexmap' = [hexmap EXCEPT !.pc = "done", !.resources = types]
          /\ geom' = [id \in DOMAIN geom \cup MapIds |->
                         IF id \in MapIds
                         THEN Polygon(get_hex_vertices(id[2], id[3]), hexmap.hex_terrain[id])
                         ELSE geom[id]]
          /\ cs' = [e \in DOMAIN cs \cup DOMAIN types |->
                       IF e \in DOMAIN types THEN hex_to_cartesian(e[2], e[3]) ELSE cs[e]]
          /\ db' = cs'
          /\ gdb' = GeometryRows(geom')
          /\ saved' = [cs |-> cs', geom |-> geom']
          /\ pre' = [cs |-> cs, db |-> db, combat |-> combat, geom |-> geom, gdb |-> gdb,
                     saved |-> saved]
          /\ last' = [op |-> "generate_map", a |-> NoId, b |-> NoId, x |-> NoArgs,
                      ret |-> "ok", out |-> NoOut]
          /\ UNCHANGED <<combat, steps, txn, astar>>

\* a new registry and a new store, before HexMap is constructed
HexMapInit ==
    /\ cs = EmptyMap
    /\ db = EmptyMap
    /\ geom = EmptyMap
    /\ gdb = EmptyMap
    /\ combat = EmptyMap
    /\ saved = NoRegistry
    /\ last = [op |-> "init", a |-> NoId, b |-> NoId, x |-> NoArgs, ret |-> "ok",
               out |-> NoOut]
    /\ pre = [cs |-> cs, db |-> db, combat |-> combat, geom |-> geom, gdb |-> gdb,
              saved |-> saved]
    /\ steps = 0
    /\ txn = NoTransaction(saved)
    /\ astar = NoSearch
    /\ hexmap = NoHexMap

HexMapNext ==
    \/ generate_map_first_pass
    \/ generate_map_rule
    \/ generate_map_collect

HexMapSpec == HexMapInit /\ [][HexMapNext]_vars

\* C27: in the rule pass the replacement decided for a cell depends only on
\* the first-pass terrain of its neighbours, so that the final map is what
\* the same draws give when every replacement is computed from a copy of the
\* first-pass assignment: every cell ends with a category that
\* apply_terrain_rules can return for it on the first-pass map.
C27_AsStated ==
    hexmap.pc \in {"collect", "done"} =>
        \A k \in DOMAIN MapCells :
            LET cell == MapCells[k]
                hex_id == HexId(cell[1], cell[2])
            IN  hexmap.hex_terrain[hex_id]
                    \in apply_terrain_rules(cell[1], cell[2], hexmap.first_pass[hex_id],
                                            hexmap.first_pass)

\* the categories around a cell on a terrain map
Around(cell, hex_terrain) ==
    {hex_terrain[HexId(n[1], n[2])] :
        n \in {m \in QRange \X RRange : Adjacent(cell, m)}}

\* C28: apply_terrain_rules(q, r, terrain) returns a category from the
\* preferred list of a neighbouring category that is in terrain's forbidden
\* list whenever such a neighbour exists; otherwise, if some neighbour's
\* category is not in terrain's allowed list, a category from terrain's own
\* preferred list; otherwise terrain unchanged.
C28_ApplyRules ==
    hexmap.call # <<>> =>
        LET cell == hexmap.call[1]
            terrain == hexmap.call[2]
            returned == hexmap.call[3]
            around == Around(cell, hexmap.before)
            rules == TERRAIN_RULES[terrain]
        IN  IF around \cap rules.forbidden # {}
            THEN \E nt \in around \cap rules.forbidden :
                    returned \in TERRAIN_RULES[nt].preferred
            ELSE IF ~(around \subseteq rules.allowed)
            THEN returned \in rules.preferred
            ELSE returned = terrain

\* a cell beside a forbidden category takes a category its own preferred
\* list does not hold
C28_Witness ==
    /\ hexmap.call # <<>>
    /\ Around(hexmap.call[1], hexmap.before) \cap TERRAIN_RULES[hexmap.call[2]].forbidden # {}
    /\ hexmap.call[3] \notin TERRAIN_RULES[hexmap.call[2]].preferred

\* a neighbour that is neither forbidden nor allowed: the draw is from the
\* cell's own list
C28_WitnessOwn ==
    /\ hexmap.call # <<>>
    /\ Around(hexmap.call[1], hexmap.before) \cap TERRAIN_RULES[hexmap.call[2]].forbidden = {}
    /\ ~(Around(hexmap.call[1], hexmap.before) \subseteq TERRAIN_RULES[hexmap.call[2]].allowed)
    /\ hexmap.call[3] # hexmap.call[2]

-----------------------------------------------------------------------------
\* C30: a poison applied with duration d deals damage on exactly d ticks of
\* update_status_effects, PoisonDamage each, while the entity survives: a
\* tick that finds n >= 1 ticks remaining deals the damage and leaves n - 1
\* (the effect is gone when that is 0), and a tick that finds the poison of
\* duration 0 deals no damage and leaves no effect.
C30_AsStated ==
    (/\ Did("update_status_effects") /\ Returned("ok")
     /\ last.a \in DOMAIN pre.combat
     /\ "poisoned" \in DOMAIN pre.combat[last.a].status_effects
     /\ pre.combat[last.a].health > 0) =>
        LET before == pre.combat[last.a]
            n == before.status_effects.poisoned
        IN  IF last.a \notin DOMAIN combat
            THEN n >= 1 /\ before.health <= PoisonDamage
            ELSE /\ combat[last.a].health =
                        IF n >= 1 THEN before.health - PoisonDamage ELSE before.health
                 /\ IF n >= 2
                    THEN /\ "poisoned" \in DOMAIN combat[last.a].status_effects
                         /\ combat[last.a].status_effects.poisoned = n - 1
                    ELSE "poisoned" \notin DOMAIN combat[last.a].status_effects

====
